---- MODULE Spec2Model ----
(***************************************************************************)
(* Model of the immigration-document pipeline: the text chunker, the       *)
(* document classifier and confidence scorer of pdf_parser.py, and the     *)
(* prompt orchestrator of llm_service.py.                                  *)
(*                                                                         *)
(* Python strings are TLA+ strings; Len, SubSeq and \o act on them as on   *)
(* sequences of characters.  Python indices are 0-based, TLA+ ones 1-based.*)
(***************************************************************************)
EXTENDS Integers, Sequences, FiniteSets, TLC

(***************************************************************************)
(* Bounds of the model.                                                    *)
(***************************************************************************)
MaxLen == 7
MaxChunkSize == 5
MaxOverlap == 5

(***************************************************************************)
(* Python string primitives.                                               *)
(***************************************************************************)
SetMax(S) == CHOOSE m \in S : \A x \in S : x <= m

CharAt(s, i) == SubSeq(s, i + 1, i + 1)

\* str.strip() with no argument strips these (the ASCII ones the model uses)
Whitespace == {" ", "\n", "\t"}

\* a slice bound as Python resolves it against a string of length n
PyIndex(i, n) ==
    IF i < 0 THEN (IF i + n < 0 THEN 0 ELSE i + n)
    ELSE (IF i > n THEN n ELSE i)

\* s[a:b]
Slice(s, a, b) ==
    LET lo == PyIndex(a, Len(s))
        hi == PyIndex(b, Len(s))
    IN  IF lo >= hi THEN "" ELSE SubSeq(s, lo + 1, hi)

\* the last index i' <= i of s with s[i'] = c, or -1
RECURSIVE RFindFrom(_, _, _)
RFindFrom(s, c, i) ==
    IF i < 0 THEN -1
    ELSE IF CharAt(s, i) = c THEN i
    ELSE RFindFrom(s, c, i - 1)

\* s.rfind(c) for a one-character c: the last index of c in s, or -1
RFind(s, c) == RFindFrom(s, c, Len(s) - 1)

\* the first index from i on of a character of s that is not whitespace
RECURSIVE SkipLeft(_, _)
SkipLeft(s, i) ==
    IF i >= Len(s) \/ CharAt(s, i) \notin Whitespace THEN i
    ELSE SkipLeft(s, i + 1)

\* the last index up to i of a character of s that is not whitespace
RECURSIVE SkipRight(_, _)
SkipRight(s, i) ==
    IF i < 0 \/ CharAt(s, i) \notin Whitespace THEN i
    ELSE SkipRight(s, i - 1)

\* s.strip()
Strip(s) ==
    LET lo == SkipLeft(s, 0)
        hi == SkipRight(s, Len(s) - 1)
    IN  IF lo > hi THEN "" ELSE SubSeq(s, lo + 1, hi + 1)

PyMax(a, b) == IF a >= b THEN a ELSE b

(***************************************************************************)
(* PDFParser.extract_text_chunks                                           *)
(***************************************************************************)
VARIABLES
    text,        \* argument text
    chunk_size,  \* argument chunk_size
    overlap,     \* argument overlap
    start,       \* local start
    chunks,      \* local chunks
    cpc,         \* "idle" | "loop" (at the while test) | "done" (returned)
                 \* | "diverged" (the loop provably never exits)
    visited,     \* history: the window starts of the iterations run so far
    windows      \* history: <<start, end>> of each iteration, end as used
                 \* for the next start

chunkVars == <<text, chunk_size, overlap, start, chunks, cpc, visited, windows>>

(* PDFParser.parse_pdf, from the extracted text on (lines 98-114) *)
VARIABLES
    full_text,         \* local full_text
    form_fields,       \* local form_fields: the field names, in order
    tables,            \* local tables: the table ids, in order
    document_type,     \* local document_type, "" before line 98
    confidence_score,  \* local confidence_score in tenths, -1 before line 101
    ppc                \* "idle" | "tables" (line 92) | "extracted"
                       \* | "classified" | "scored"

parseVars == <<full_text, form_fields, tables, document_type, confidence_score, ppc>>

(* standalone calls of PDFParser._classify_document on one parser object *)
VARIABLES
    calls        \* history: <<text, label returned>> of each call so far

callVars == <<calls>>

(* LLMService.analyze_document on the parsed document above (lines 67-113) *)
VARIABLES
    questions,          \* argument questions
    apc,                \* "idle" | the call being made: "summary", "key_info",
                        \* "field", "recommendations", "question" | "confidence"
                        \* (line 100) | "done" (returned) | "raised"
    awaiting,           \* a prompt is with the provider, the coroutine suspended
    field_i,            \* position of the loop of line 177 (0-based)
    question_i,         \* position of the loop of line 95 (0-based)
    summary,            \* local summary
    key_info,           \* local key_info
    form_analysis,      \* local form_analysis
    recommendations,    \* local recommendations
    questions_answered, \* local questions_answered
    confidence,         \* local confidence in hundredths, -1 before line 100
    exception,          \* what analyze_document raised, "" if nothing
    dispatched,         \* history: the prompts handed to the provider, in order
    responses           \* history: what the provider did with each of them

llmVars ==
    <<questions, apc, awaiting, field_i, question_i, summary, key_info,
      form_analysis, recommendations, questions_answered, confidence, exception,
      dispatched, responses>>

(* PDFParser._extract_text on an open document (lines 189-200) *)
VARIABLES
    pages,       \* the document: what get_text() gives for each page, in order
    page_num,    \* loop variable page_num: the pages read so far
    pages_text,  \* local pages_text
    joined,      \* local full_text of _extract_text, before it is stripped
    xpc          \* "idle" | "loop" (line 194) | "returned"

extractVars == <<pages, page_num, pages_text, joined, xpc>>

(* PDFParser._extract_tables and _extract_tables_from_bytes (lines 222-267) *)
VARIABLES
    pdf,          \* what pdfplumber finds: whether the file opens, and for
                  \* each page whether extract_tables() works and what it gives
    table_page,   \* loop variable page_num (0-based)
    table_i,      \* position in page_tables (0-based)
    found,        \* local tables of _extract_tables
    table_error,  \* the except clause of line 240 or 264 ran
    tpc           \* "idle" | "open" (line 227) | "page" (line 228)
                  \* | "table" (line 231) | "failed" (line 240) | "returned"

tableVars == <<pdf, table_page, table_i, found, table_error, tpc>>

(* LLMService: construction, then generate_faq (lines 50-65, 244-251, 356-376) *)
VARIABLES
    provider,           \* argument provider of __init__
    openai_api_key,     \* os.getenv('OPENAI_API_KEY')
    anthropic_api_key,  \* os.getenv('ANTHROPIC_API_KEY')
    spc,                \* "idle" | "new" | "constructed" | "calling" (the first
                        \* _call_llm is with the provider) | "returned" | "raised"
    faq,                \* what generate_faq returned
    served,             \* history: what the provider did with the first call
    service_error       \* what __init__ or generate_faq raised, "" if nothing

serviceVars ==
    <<provider, openai_api_key, anthropic_api_key, spc, faq, served, service_error>>

\* one LLMService method called on its own on a parsed document
VARIABLES
    method,         \* the method called and its argument besides the document
    method_slot,    \* _analyze_form_fields: the index of the current field
    prompts,        \* ghost: the prompts the method handed to _call_llm
    received,       \* ghost: the response contents _call_llm returned
    result,         \* the value the method returned
    mpc             \* "idle", "called", "awaiting", "returned" or "raised"

methodVars == <<method, method_slot, prompts, received, result, mpc>>

\* api.py: the caches and the requests
VARIABLES
    document_cache,  \* line 47: document id -> the parsed document and its file name
    analysis_cache,  \* line 48: analysis id -> the document id and the analysis
    uuids,           \* how many uuid4() values have been drawn
    frames           \* the requests in order of arrival: each handler's locals,
                     \* where it stands, and its reply once it has answered

apiVars == <<document_cache, analysis_cache, uuids, frames>>

\* the fitz document and what the extraction steps get out of it
VARIABLES
    fitz_doc,     \* the document fitz.open returned
    page_count,   \* metadata.page_count
    item_page,    \* page_num of the running loop
    images_info,  \* the list _extract_images_info builds
    ipc           \* "idle", "metadata", "fields", "images" or "returned"

itemVars == <<fitz_doc, page_count, item_page, images_info, ipc>>

restVars == <<methodVars, apiVars, itemVars>>

vars == <<chunkVars, parseVars, callVars, llmVars, extractVars, tableVars, serviceVars,
          restVars>>

\* the characters texts are made of: a letter and the two break characters,
\* of which the newline is also whitespace
Char == {"a", ".", "\n"}

RECURSIVE StringsOfLen(_)
StringsOfLen(n) ==
    IF n = 0 THEN {""}
    ELSE {s \o c : s \in StringsOfLen(n - 1), c \in Char}

Texts == UNION {StringsOfLen(n) : n \in 0..MaxLen}

\* lines 369-370: the full window from st
WindowEnd(st) == st + chunk_size
WindowChunk(st) == Slice(text, st, WindowEnd(st))

\* lines 374-376
BreakPoint(chunk) == PyMax(RFind(chunk, "."), RFind(chunk, "\n"))

\* line 378: the test that shrinks the window to the break point
BreaksAt(st, break_point) == break_point > st + chunk_size \div 2

\* lines 373-380: does this iteration shrink its window
Shrinks(st) ==
    /\ WindowEnd(st) < Len(text)
    /\ BreaksAt(st, BreakPoint(WindowChunk(st)))

\* lines 369-380: end and chunk at the bottom of an iteration from st
IterEnd(st) ==
    IF Shrinks(st) THEN st + BreakPoint(WindowChunk(st)) + 1
    ELSE WindowEnd(st)

IterChunk(st) ==
    IF Shrinks(st)
    THEN Slice(text, st, st + BreakPoint(WindowChunk(st)) + 1)
    ELSE WindowChunk(st)

\* line 383
NextStart_NoOverlap(end) == end

NextStart(end) == end - overlap

\* The iteration is a function of start alone (text, chunk_size and overlap
\* never change), so a start seen before repeats forever.  Below
\* -(len(text) + chunk_size) every window is empty, end = start, and start
\* only decreases (or stays).  Either way the while test never fails.
NeverExits(st, seen) ==
    \/ st \in seen
    \/ st < 0 - (Len(text) + chunk_size)

\* lines 353, 365-366: the call, with its arguments
ChunkInit ==
    /\ text \in Texts
    /\ chunk_size \in 1..MaxChunkSize
    /\ overlap \in 0..MaxOverlap
    /\ start = 0
    /\ chunks = <<>>
    /\ cpc = "loop"
    /\ visited = {}
    /\ windows = <<>>

\* lines 368-383: one iteration of the while loop
ChunkStep ==
    /\ cpc = "loop"
    /\ start < Len(text)
    /\ chunks' = Append(chunks, Strip(IterChunk(start)))
    /\ start' = NextStart(IterEnd(start))
    /\ visited' = visited \cup {start}
    /\ windows' = Append(windows, <<start, IterEnd(start)>>)
    /\ cpc' = IF NeverExits(start', visited') THEN "diverged" ELSE "loop"
    /\ UNCHANGED <<text, chunk_size, overlap>>
    /\ UNCHANGED <<parseVars, callVars, llmVars, extractVars, tableVars, serviceVars,
                   restVars>>

\* lines 368, 385: the while test fails, the chunks are returned
ChunkReturn ==
    /\ cpc = "loop"
    /\ start >= Len(text)
    /\ cpc' = "done"
    /\ UNCHANGED <<text, chunk_size, overlap, start, chunks, visited, windows>>
    /\ UNCHANGED <<parseVars, callVars, llmVars, extractVars, tableVars, serviceVars,
                   restVars>>


(***************************************************************************)
(* PDFParser._classify_document and PDFParser._calculate_confidence        *)
(***************************************************************************)
UpperCase == "ABCDEFGHIJKLMNOPQRSTUVWXYZ"
LowerCase == "abcdefghijklmnopqrstuvwxyz"

LowerOf ==
    [c \in {CharAt(UpperCase, i) : i \in 0..(Len(UpperCase) - 1)} |->
        CharAt(LowerCase, CHOOSE i \in 0..(Len(UpperCase) - 1) : CharAt(UpperCase, i) = c)]

LowerChar(c) == IF c \in DOMAIN LowerOf THEN LowerOf[c] ELSE c

\* s[lo:hi].lower(), by halves
RECURSIVE LowerRange(_, _, _)
LowerRange(s, lo, hi) ==
    IF hi <= lo THEN ""
    ELSE IF hi = lo + 1 THEN LowerChar(CharAt(s, lo))
    ELSE LowerRange(s, lo, lo + (hi - lo) \div 2)
            \o LowerRange(s, lo + (hi - lo) \div 2, hi)

\* s.lower()
Lower(s) == LowerRange(s, 0, Len(s))

\* p in s
Contains(s, p) ==
    \E i \in 0..(Len(s) - Len(p)) : SubSeq(s, i + 1, i + Len(p)) = p

SetMin(S) == CHOOSE m \in S : \A x \in S : m <= x

\* lines 300-311: the dict literal, in its insertion (= iteration) order
form_patterns_swapped ==
    << [form_type |-> "I-485", patterns |-> {"i-485", "application to register permanent residence"}],
       [form_type |-> "I-130", patterns |-> {"i-130", "petition for alien relative"}],
       [form_type |-> "I-765", patterns |-> {"i-765", "application for employment authorization"}],
       [form_type |-> "I-821D", patterns |-> {"i-821d", "daca", "deferred action"}],
       [form_type |-> "I-90", patterns |-> {"i-90", "application to replace permanent resident card"}],
       [form_type |-> "N-400", patterns |-> {"n-400", "application for naturalization"}],
       [form_type |-> "I-864", patterns |-> {"i-864", "affidavit of support"}],
       [form_type |-> "I-693", patterns |-> {"i-693", "report of medical examination"}],
       [form_type |-> "G-1145", patterns |-> {"g-1145", "e-notification"}],
       [form_type |-> "I-131", patterns |-> {"i-131", "application for travel document"}] >>

form_patterns ==
    << [form_type |-> "I-130", patterns |-> {"i-130", "petition for alien relative"}],
       [form_type |-> "I-485", patterns |-> {"i-485", "application to register permanent residence"}],
       [form_type |-> "I-765", patterns |-> {"i-765", "application for employment authorization"}],
       [form_type |-> "I-821D", patterns |-> {"i-821d", "daca", "deferred action"}],
       [form_type |-> "I-90", patterns |-> {"i-90", "application to replace permanent resident card"}],
       [form_type |-> "N-400", patterns |-> {"n-400", "application for naturalization"}],
       [form_type |-> "I-864", patterns |-> {"i-864", "affidavit of support"}],
       [form_type |-> "I-693", patterns |-> {"i-693", "report of medical examination"}],
       [form_type |-> "G-1145", patterns |-> {"g-1145", "e-notification"}],
       [form_type |-> "I-131", patterns |-> {"i-131", "application for travel document"}] >>

\* line 314: any(pattern in text_lower for pattern in patterns)
AnyPattern(text_lower, patterns) ==
    \E pattern \in patterns : Contains(text_lower, pattern)

\* lines 318-329: the general document types, an if/elif chain
GeneralType_BirthFirst(text_lower) ==
    IF Contains(text_lower, "birth certificate") THEN "Birth Certificate"
    ELSE IF Contains(text_lower, "passport") THEN "Passport"
    ELSE IF Contains(text_lower, "marriage certificate") THEN "Marriage Certificate"
    ELSE IF Contains(text_lower, "divorce decree") THEN "Divorce Decree"
    ELSE IF Contains(text_lower, "employment") \/ Contains(text_lower, "authorization")
         THEN "Employment Authorization"
    ELSE "Unknown Document"

GeneralType_NoSentinel(text_lower) ==
    IF Contains(text_lower, "passport") THEN "Passport"
    ELSE IF Contains(text_lower, "birth certificate") THEN "Birth Certificate"
    ELSE IF Contains(text_lower, "marriage certificate") THEN "Marriage Certificate"
    ELSE IF Contains(text_lower, "divorce decree") THEN "Divorce Decree"
    ELSE IF Contains(text_lower, "employment") /\ Contains(text_lower, "authorization")
         THEN "Employment Authorization"
    ELSE ""

GeneralType(text_lower) ==
    IF Contains(text_lower, "passport") THEN "Passport"
    ELSE IF Contains(text_lower, "birth certificate") THEN "Birth Certificate"
    ELSE IF Contains(text_lower, "marriage certificate") THEN "Marriage Certificate"
    ELSE IF Contains(text_lower, "divorce decree") THEN "Divorce Decree"
    ELSE IF Contains(text_lower, "employment") /\ Contains(text_lower, "authorization")
         THEN "Employment Authorization"
    ELSE "Unknown Document"

\* lines 295-329
ClassifyDocument(t) ==
    LET text_lower == Lower(t)
        hits == {i \in 1..Len(form_patterns) :
                     AnyPattern(text_lower, form_patterns[i].patterns)}
    IN  IF hits # {} THEN form_patterns[SetMin(hits)].form_type
        ELSE GeneralType(text_lower)

\* the return value of one call (line 315 or lines 319-329)
ClassifyResult_Sticky(t) ==
    IF calls # <<>> /\ calls[Len(calls)][2] # "Unknown Document"
    THEN calls[Len(calls)][2]
    ELSE ClassifyDocument(t)

ClassifyResult(t) == ClassifyDocument(t)

\* lines 336-351, the score in tenths
MinTextLength == 100
TextWeight == 3
FieldsWeight == 2
TablesWeight == 2
ClassifiedWeight == 3
MaxScore == 10

PyMin(a, b) == IF a <= b THEN a ELSE b

\* line 336
HasText_AtLeast(t) == Len(Strip(t)) >= MinTextLength

HasText(t) == Len(Strip(t)) > MinTextLength

\* lines 331-351
CalculateConfidence(t, ff, tb) ==
    LET s1 == IF HasText(t) THEN TextWeight ELSE 0
        s2 == s1 + (IF ff # <<>> THEN FieldsWeight ELSE 0)
        s3 == s2 + (IF tb # <<>> THEN TablesWeight ELSE 0)
        s4 == s3 + (IF ClassifyDocument(t) # "Unknown Document"
                    THEN ClassifiedWeight ELSE 0)
    IN  PyMin(s4, MaxScore)

(***************************************************************************)
(* The documents the parser is run on.                                     *)
(***************************************************************************)
MaxFields == 2
MaxTables == 1
MaxCalls == 3

\* what a page of an immigration document may print
Fragments ==
    { "", "I-130", "i-130", "I-485", "i-485", "I-765", "I-821D", "I-90", "N-400",
      "I-864", "I-693", "G-1145", "I-131",
      "Petition for Alien Relative",
      "Application to Register Permanent Residence",
      "Application for Employment Authorization",
      "DACA", "Deferred Action",
      "Application to Replace Permanent Resident Card",
      "Application for Naturalization", "Affidavit of Support",
      "Report of Medical Examination", "e-Notification",
      "Application for Travel Document",
      "PASSPORT", "Birth Certificate", "Marriage Certificate", "Divorce Decree",
      "Employment", "Authorization", "Employment Authorization Card",
      "I-13", "Certificate", "Form" }

PairTexts == {f \o " " \o g : f, g \in Fragments}

RECURSIVE Pad(_)
Pad(n) ==
    IF n <= 0 THEN ""
    ELSE IF n = 1 THEN "x"
    ELSE Pad(n \div 2) \o Pad(n - n \div 2)

PadFragments == {"", "I-130 Petition for Alien Relative ", "Passport "}

\* texts whose trimmed length is just below, at and just above the threshold
PaddedTexts ==
    {w1 \o f \o Pad(MinTextLength - Len(f) + d) \o w2 :
        w1 \in {"", "\n "}, f \in PadFragments, d \in {-1, 0, 1}, w2 \in {"", " \n"}}

DocTexts == {""} \cup PairTexts \cup PaddedTexts

FieldNames == <<"given_name", "family_name", "a_number", "date_of_birth">>
TableIds == <<"t1", "t2", "t3">>

FieldLists == {SubSeq(FieldNames, 1, n) : n \in 0..MaxFields}
TableLists == {SubSeq(TableIds, 1, n) : n \in 0..MaxTables}

CallTexts ==
    { "", "I-130", "I-485 and i-130", "Passport", "birth certificate",
      "Birth Certificate in a PASSPORT", "Employment", "Employment Authorization",
      "DACA", "Form" }

ChunkIdleVars ==
    /\ text = "" /\ chunk_size = 1 /\ overlap = 0
    /\ start = 0 /\ chunks = <<>> /\ cpc = "idle"
    /\ visited = {} /\ windows = <<>>

ParseIdleVars ==
    /\ full_text = "" /\ form_fields = <<>> /\ tables = <<>>
    /\ document_type = "" /\ confidence_score = -1 /\ ppc = "idle"

CallIdleVars == calls = <<>>

\* lines 80-95: the document is open and its text, fields and tables are out
ParseInit ==
    /\ full_text \in DocTexts
    /\ form_fields \in FieldLists
    /\ tables \in TableLists
    /\ document_type = ""
    /\ confidence_score = -1
    /\ ppc = "extracted"

\* line 98
ParseClassify ==
    /\ ppc = "extracted"
    /\ document_type' = ClassifyDocument(full_text)
    /\ ppc' = "classified"
    /\ UNCHANGED <<full_text, form_fields, tables, confidence_score>>
    /\ UNCHANGED <<chunkVars, callVars, llmVars, extractVars, tableVars, serviceVars,
                   restVars>>

\* line 101
ParseScore ==
    /\ ppc = "classified"
    /\ confidence_score' = CalculateConfidence(full_text, form_fields, tables)
    /\ ppc' = "scored"
    /\ UNCHANGED <<full_text, form_fields, tables, document_type>>
    /\ UNCHANGED <<chunkVars, callVars, llmVars, extractVars, tableVars, serviceVars,
                   restVars>>

\* one call of _classify_document (lines 295-329) on the shared parser
ClassifyCall ==
    /\ Len(calls) < MaxCalls
    /\ \E t \in CallTexts : calls' = Append(calls, <<t, ClassifyResult(t)>>)
    /\ UNCHANGED <<chunkVars, parseVars, llmVars, extractVars, tableVars, serviceVars,
                   restVars>>

(***************************************************************************)
(* json.loads, as far as _extract_key_information uses it: the decoder on  *)
(* a text without backslash escapes.  A decoded value is kept as its type, *)
(* its keys (a dict), its len() (dict, list, str) or its truth (a scalar:  *)
(* size 1 if truthy, 0 if falsy).                                          *)
(***************************************************************************)
JsonWhitespace == {" ", "\t", "\n", "\r"}
ControlChars == {"\t", "\n", "\r"}
Digits == {"0", "1", "2", "3", "4", "5", "6", "7", "8", "9"}

\* s[i:i+1]: "" past the end
Peek(s, i) == IF i < 0 \/ i >= Len(s) THEN "" ELSE CharAt(s, i)

JVal(kind, keys, size) == [kind |-> kind, keys |-> keys, size |-> size, raw |-> ""]

JFail == [ok |-> FALSE, end |-> 0, val |-> JVal("none", {}, 0)]
JOk(end, val) == [ok |-> TRUE, end |-> end, val |-> val]

RECURSIVE SkipJsonWs(_, _)
SkipJsonWs(s, i) ==
    IF Peek(s, i) \in JsonWhitespace THEN SkipJsonWs(s, i + 1) ELSE i

\* the index of the quote closing the string whose text starts at i, or -1
RECURSIVE ScanString(_, _)
ScanString(s, i) ==
    IF i >= Len(s) THEN -1
    ELSE IF CharAt(s, i) = "\"" THEN i
    ELSE IF CharAt(s, i) \in ControlChars THEN -1
    ELSE ScanString(s, i + 1)

RECURSIVE ScanDigits(_, _)
ScanDigits(s, i) == IF Peek(s, i) \in Digits THEN ScanDigits(s, i + 1) ELSE i

\* the end of the number starting at i, or -1:
\* (-?(?:0|[1-9]\d*))(\.\d+)?([eE][-+]?\d+)?
MatchNumber(s, i) ==
    LET j0 == IF Peek(s, i) = "-" THEN i + 1 ELSE i
        j1 == IF Peek(s, j0) = "0" THEN j0 + 1
              ELSE IF Peek(s, j0) \in Digits THEN ScanDigits(s, j0 + 1)
              ELSE -1
        j2 == IF Peek(s, j1) = "." /\ Peek(s, j1 + 1) \in Digits
              THEN ScanDigits(s, j1 + 2) ELSE j1
        k  == IF Peek(s, j2 + 1) \in {"-", "+"} THEN j2 + 2 ELSE j2 + 1
        j3 == IF Peek(s, j2) \in {"e", "E"} /\ Peek(s, k) \in Digits
              THEN ScanDigits(s, k + 1) ELSE j2
    IN  IF j1 < 0 THEN -1 ELSE j3

\* is the number s[i:end] other than zero
RECURSIVE NonZero(_, _, _)
NonZero(s, i, end) ==
    IF i >= end \/ CharAt(s, i) \in {"e", "E"} THEN FALSE
    ELSE IF CharAt(s, i) \in (Digits \ {"0"}) THEN TRUE
    ELSE NonZero(s, i + 1, end)

RECURSIVE ParseValue(_, _)
RECURSIVE ParseMembers(_, _, _)
RECURSIVE ParseItems(_, _, _)

\* JSONObject, after the opening brace
ParseObject(s, i) ==
    LET j == SkipJsonWs(s, i)
    IN  IF Peek(s, j) = "}" THEN JOk(j + 1, JVal("dict", {}, 0))
        ELSE IF Peek(s, j) = "\"" THEN ParseMembers(s, j, {})
        ELSE JFail

\* the pairs of an object from the opening quote of a key at i
ParseMembers(s, i, keys) ==
    LET e == ScanString(s, i + 1)
        all == keys \cup {Slice(s, i + 1, e)}
        colon == SkipJsonWs(s, e + 1)
        v == ParseValue(s, SkipJsonWs(s, colon + 1))
        k == SkipJsonWs(s, v.end)
        next == SkipJsonWs(s, k + 1)
    IN  IF e < 0 \/ Peek(s, colon) # ":" THEN JFail
        ELSE IF ~v.ok THEN JFail
        ELSE IF Peek(s, k) = "}" THEN JOk(k + 1, JVal("dict", all, Cardinality(all)))
        ELSE IF Peek(s, k) = "," /\ Peek(s, next) = "\"" THEN ParseMembers(s, next, all)
        ELSE JFail

\* JSONArray, after the opening bracket
ParseArray(s, i) ==
    LET j == SkipJsonWs(s, i)
    IN  IF Peek(s, j) = "]" THEN JOk(j + 1, JVal("list", {}, 0))
        ELSE ParseItems(s, j, 0)

\* the items of an array from the n-th (0-based), which starts at i
ParseItems(s, i, n) ==
    LET v == ParseValue(s, i)
        k == SkipJsonWs(s, v.end)
    IN  IF ~v.ok THEN JFail
        ELSE IF Peek(s, k) = "]" THEN JOk(k + 1, JVal("list", {}, n + 1))
        ELSE IF Peek(s, k) = "," THEN ParseItems(s, SkipJsonWs(s, k + 1), n + 1)
        ELSE JFail

\* scan_once
ParseValue(s, i) ==
    LET c == Peek(s, i)
        e == ScanString(s, i + 1)
        m == MatchNumber(s, i)
    IN  IF c = "" THEN JFail
        ELSE IF c = "\"" THEN
            (IF e < 0 THEN JFail ELSE JOk(e + 1, JVal("str", {}, e - i - 1)))
        ELSE IF c = "{" THEN ParseObject(s, i + 1)
        ELSE IF c = "[" THEN ParseArray(s, i + 1)
        ELSE IF c = "n" /\ Slice(s, i, i + 4) = "null" THEN JOk(i + 4, JVal("null", {}, 0))
        ELSE IF c = "t" /\ Slice(s, i, i + 4) = "true" THEN JOk(i + 4, JVal("bool", {}, 1))
        ELSE IF c = "f" /\ Slice(s, i, i + 5) = "false" THEN JOk(i + 5, JVal("bool", {}, 0))
        ELSE IF m >= 0 THEN
            JOk(m, JVal("num", {}, IF NonZero(s, i, m) THEN 1 ELSE 0))
        ELSE IF c = "N" /\ Slice(s, i, i + 3) = "NaN" THEN JOk(i + 3, JVal("num", {}, 1))
        ELSE IF c = "I" /\ Slice(s, i, i + 8) = "Infinity" THEN JOk(i + 8, JVal("num", {}, 1))
        ELSE IF c = "-" /\ Slice(s, i, i + 9) = "-Infinity" THEN JOk(i + 9, JVal("num", {}, 1))
        ELSE JFail

\* json.loads(s): ok is FALSE where it raises JSONDecodeError
JsonLoads(s) ==
    LET v == ParseValue(s, SkipJsonWs(s, 0))
    IN  IF ~v.ok THEN JFail
        ELSE IF SkipJsonWs(s, v.end) # Len(s) THEN JFail
        ELSE v

(***************************************************************************)
(* LLMService: the prompts and what is done with the responses.            *)
(***************************************************************************)
\* lines 124, 147, 212, 235: the characters of the document a prompt embeds
SummaryChars == 4000
KeyInfoChars == 3000
RecommendationsChars == 2000
AnswerChars == 3000

\* {"raw_response": content}
RawResponse(content) ==
    [kind |-> "dict", keys |-> {"raw_response"}, size |-> 1, raw |-> content]

\* lines 164-168
ExtractKeyInformation_NoFallback(content) == JsonLoads(content).val

ExtractKeyInformation(content) ==
    IF JsonLoads(content).ok THEN JsonLoads(content).val
    ELSE RawResponse(content)

\* s.split('\n') from index i on, the current piece starting at from
RECURSIVE SplitFrom(_, _, _)
SplitFrom(s, from, i) ==
    IF i >= Len(s) THEN <<Slice(s, from, Len(s))>>
    ELSE IF CharAt(s, i) = "\n"
         THEN <<Slice(s, from, i)>> \o SplitFrom(s, i + 1, i + 1)
    ELSE SplitFrom(s, from, i + 1)

\* line 225: response.content.split('\n')
SplitLines_DropLast(s) ==
    LET pieces == SplitFrom(s, 0, 0)
    IN  IF pieces[Len(pieces)] = "" THEN SubSeq(pieces, 1, Len(pieces) - 1)
        ELSE pieces

SplitLines(s) == SplitFrom(s, 0, 0)

\* bool(v) and whether len(v) is defined
Truthy(v) == v.size > 0
HasLen(v) == v.kind \in {"dict", "list", "str"}

\* line 314 raises TypeError on a truthy value without len()
ConfidenceRaises(ki) == Truthy(ki) /\ ~HasLen(ki)

\* lines 304-325, in hundredths (confidence_score is in tenths)
CalculateAnalysisConfidence_HalfBase(sm, ki) ==
    LET s0 == confidence_score * 5
        s1 == s0 + (IF Len(sm) > 200 THEN 20 ELSE 0)
        s2 == s1 + (IF Truthy(ki) /\ ki.size > 3 THEN 20 ELSE 0)
        s3 == s2 + (IF form_fields # <<>> THEN 10 ELSE 0)
        s4 == s3 + (IF document_type # "Unknown Document" THEN 10 ELSE 0)
    IN  PyMin(s4, 100)

CalculateAnalysisConfidence(sm, ki) ==
    LET s0 == confidence_score * 4
        s1 == s0 + (IF Len(sm) > 200 THEN 20 ELSE 0)
        s2 == s1 + (IF Truthy(ki) /\ ki.size > 3 THEN 20 ELSE 0)
        s3 == s2 + (IF form_fields # <<>> THEN 10 ELSE 0)
        s4 == s3 + (IF document_type # "Unknown Document" THEN 10 ELSE 0)
    IN  PyMin(s4, 100)

\* lines 336, 350, 362: the characters of the document a prompt embeds
TranslateChars == 3000
SimplifyChars == 3000
FaqChars == 2000

\* lines 124, 147, 212, 235, 336, 350, 362: the document text a prompt of
\* this kind embeds; lines 178-193: a field prompt embeds none
DocumentText_Whole(kind) == IF kind = "field" THEN "" ELSE full_text

DocumentText(kind) ==
    CASE kind = "summary" -> Slice(full_text, 0, SummaryChars)
      [] kind = "key_info" -> Slice(full_text, 0, KeyInfoChars)
      [] kind = "field" -> ""
      [] kind = "recommendations" -> Slice(full_text, 0, RecommendationsChars)
      [] kind = "question" -> Slice(full_text, 0, AnswerChars)
      [] kind = "translate" -> Slice(full_text, 0, TranslateChars)
      [] kind = "simplify" -> Slice(full_text, 0, SimplifyChars)
      [] kind = "faq" -> Slice(full_text, 0, FaqChars)

\* a prompt (lines 117-134, 141-160, 178-193, 208-222, 229-239, 330-337,
\* 344-351, 358-369): its kind, its place among the calls of its kind, what
\* it is about and the document text it embeds
Prompt(kind, slot, about) ==
    [kind |-> kind, slot |-> slot, about |-> about, content |-> DocumentText(kind)]

\* the prompt of the call analyze_document is at
PromptAt(pc) ==
    CASE pc = "field" -> Prompt(pc, field_i, form_fields[field_i + 1])
      [] pc = "question" -> Prompt(pc, question_i, questions[question_i + 1])
      [] OTHER -> Prompt(pc, 0, "")

CallStates == {"summary", "key_info", "field", "recommendations", "question"}

\* lines 275-277, 300-302 and 111-113: the provider's exception is logged and
\* raised again, up to the caller of analyze_document
AfterFailure_Retry(pc) == pc

AfterFailure_Skip(pc) == "confidence"

AfterFailure(pc) == "raised"

\* lines 87 and 172-173: no call is made for a document without form fields
AfterKeyInfo_SkipsFields == "recommendations"

AfterKeyInfo == IF form_fields # <<>> THEN "field" ELSE "recommendations"

\* lines 94-95
AfterRecommendations == IF questions # <<>> THEN "question" ELSE "confidence"

(***************************************************************************)
(* What the provider may answer.                                           *)
(***************************************************************************)
MaxQuestions == 2

QuestionSet == {"What is the deadline?", "What documents are required?"}
QuestionLists == UNION {[1..n -> QuestionSet] : n \in 0..MaxQuestions}

AnalysisTexts ==
    {"", "I-130 Petition for Alien Relative",
     "I-130 Petition for Alien Relative " \o Pad(MinTextLength)}

JsonResponses ==
    { "{\"form_number\": \"I-130\", \"deadlines\": [], \"fees\": [\"$535\", \"check\"], \"processing_time\": null}",
      " {\"form_number\": \"I-130\"}\n",
      "{\"fees\": 1, \"fees\": 2.50}",
      "{}",
      "[1, 2, 3, 4]",
      "[]",
      "42",
      "0",
      "\"I-130\"",
      "null",
      "true",
      "NaN" }

MalformedResponses ==
    { "",
      "{\"form_number\": \"I-130\"",
      "Here is the JSON: {\"form_number\": \"I-130\"}",
      "{\"form_number\": \"I-130\",}",
      "{'form_number': 'I-130'}",
      "[1, 2,]",
      "I cannot help with that." }

ResponsesTo(kind) ==
    CASE kind = "summary" -> {"", "This is form I-130.", Pad(201)}
      [] kind = "key_info" -> JsonResponses \cup MalformedResponses
      [] kind = "field" -> {"Enter your legal name."}
      [] kind = "recommendations" -> {"", "1. File the form\n\n2. Pay the fee\n"}
      [] kind = "question" -> {"Not stated in the document.", "Within 30 days."}

NoKeyInfo == JVal("unset", {}, 0)

LLMIdleVars ==
    /\ questions = <<>> /\ apc = "idle" /\ awaiting = FALSE
    /\ field_i = 0 /\ question_i = 0
    /\ summary = "" /\ key_info = NoKeyInfo /\ form_analysis = <<>>
    /\ recommendations = <<>> /\ questions_answered = <<>>
    /\ confidence = -1 /\ exception = ""
    /\ dispatched = <<>> /\ responses = <<>>

\* a document parse_pdf returned (lines 105-114)
ParsedDocVars ==
    /\ full_text \in AnalysisTexts
    /\ form_fields \in FieldLists
    /\ tables \in TableLists
    /\ document_type = ClassifyDocument(full_text)
    /\ confidence_score = CalculateConfidence(full_text, form_fields, tables)
    /\ ppc = "scored"

\* lines 67-68, 79: the call, with its arguments
AnalyzeInit ==
    /\ questions \in QuestionLists
    /\ apc = "summary" /\ awaiting = FALSE
    /\ field_i = 0 /\ question_i = 0
    /\ summary = "" /\ key_info = NoKeyInfo /\ form_analysis = <<>>
    /\ recommendations = <<>> /\ questions_answered = <<>>
    /\ confidence = -1 /\ exception = ""
    /\ dispatched = <<>> /\ responses = <<>>

Received(content) == [ok |-> TRUE, content |-> content]
Failed == [ok |-> FALSE, content |-> ""]

\* lines 136, 162, 195, 224, 241 with 244-249 and 256 or 283: the prompt is
\* built and handed to the provider, and the coroutine awaits the response
Dispatch ==
    /\ apc \in CallStates
    /\ ~awaiting
    /\ dispatched' = Append(dispatched, PromptAt(apc))
    /\ awaiting' = TRUE
    /\ UNCHANGED <<questions, apc, field_i, question_i, summary, key_info,
                   form_analysis, recommendations, questions_answered,
                   confidence, exception, responses>>
    /\ UNCHANGED <<chunkVars, parseVars, callVars, extractVars, tableVars, serviceVars,
                   restVars>>

\* lines 275-277 or 300-302, then 111-113: the provider call fails
ProviderFails ==
    /\ awaiting
    /\ awaiting' = FALSE
    /\ responses' = Append(responses, Failed)
    /\ apc' = AfterFailure(apc)
    /\ exception' = IF apc' = "raised" THEN "ProviderCallFailed" ELSE exception
    /\ UNCHANGED <<questions, field_i, question_i, summary, key_info,
                   form_analysis, recommendations, questions_answered,
                   confidence, dispatched>>
    /\ UNCHANGED <<chunkVars, parseVars, callVars, extractVars, tableVars, serviceVars,
                   restVars>>

\* lines 136-137 and 81
SummaryReturns ==
    /\ awaiting /\ apc = "summary"
    /\ \E content \in ResponsesTo("summary") :
          /\ responses' = Append(responses, Received(content))
          /\ summary' = content
    /\ awaiting' = FALSE
    /\ apc' = "key_info"
    /\ UNCHANGED <<questions, field_i, question_i, key_info, form_analysis,
                   recommendations, questions_answered, confidence, exception,
                   dispatched>>
    /\ UNCHANGED <<chunkVars, parseVars, callVars, extractVars, tableVars, serviceVars,
                   restVars>>

\* lines 162-168 and 84
KeyInfoReturns ==
    /\ awaiting /\ apc = "key_info"
    /\ \E content \in ResponsesTo("key_info") :
          /\ responses' = Append(responses, Received(content))
          /\ key_info' = ExtractKeyInformation(content)
    /\ awaiting' = FALSE
    /\ apc' = AfterKeyInfo
    /\ UNCHANGED <<questions, field_i, question_i, summary, form_analysis,
                   recommendations, questions_answered, confidence, exception,
                   dispatched>>
    /\ UNCHANGED <<chunkVars, parseVars, callVars, extractVars, tableVars, serviceVars,
                   restVars>>

\* lines 195-202, and 204 with 87 after the last field
FieldReturns ==
    /\ awaiting /\ apc = "field"
    /\ \E content \in ResponsesTo("field") :
          /\ responses' = Append(responses, Received(content))
          /\ form_analysis' =
                Append(form_analysis,
                       [field_name |-> form_fields[field_i + 1], guidance |-> content])
    /\ awaiting' = FALSE
    /\ field_i' = field_i + 1
    /\ apc' = IF field_i' < Len(form_fields) THEN "field" ELSE "recommendations"
    /\ UNCHANGED <<questions, question_i, summary, key_info, recommendations,
                   questions_answered, confidence, exception, dispatched>>
    /\ UNCHANGED <<chunkVars, parseVars, callVars, extractVars, tableVars, serviceVars,
                   restVars>>

\* lines 224-225 and 90, 93-94
RecommendationsReturn ==
    /\ awaiting /\ apc = "recommendations"
    /\ \E content \in ResponsesTo("recommendations") :
          /\ responses' = Append(responses, Received(content))
          /\ recommendations' = SplitLines(content)
    /\ awaiting' = FALSE
    /\ apc' = AfterRecommendations
    /\ UNCHANGED <<questions, field_i, question_i, summary, key_info,
                   form_analysis, questions_answered, confidence, exception,
                   dispatched>>
    /\ UNCHANGED <<chunkVars, parseVars, callVars, extractVars, tableVars, serviceVars,
                   restVars>>

\* lines 241-242 and 96-97
AnswerReturns ==
    /\ awaiting /\ apc = "question"
    /\ \E content \in ResponsesTo("question") :
          /\ responses' = Append(responses, Received(content))
          /\ questions_answered' =
                [q \in DOMAIN questions_answered \cup {questions[question_i + 1]} |->
                    IF q = questions[question_i + 1] THEN content
                    ELSE questions_answered[q]]
    /\ awaiting' = FALSE
    /\ question_i' = question_i + 1
    /\ apc' = IF question_i' < Len(questions) THEN "question" ELSE "confidence"
    /\ UNCHANGED <<questions, field_i, summary, key_info, form_analysis,
                   recommendations, confidence, exception, dispatched>>
    /\ UNCHANGED <<chunkVars, parseVars, callVars, extractVars, tableVars, serviceVars,
                   restVars>>

\* lines 100-109: the confidence is computed and the DocumentAnalysis returned
AnalysisReturns ==
    /\ apc = "confidence"
    /\ ~ConfidenceRaises(key_info)
    /\ confidence' = CalculateAnalysisConfidence(summary, key_info)
    /\ apc' = "done"
    /\ UNCHANGED <<questions, awaiting, field_i, question_i, summary, key_info,
                   form_analysis, recommendations, questions_answered,
                   exception, dispatched, responses>>
    /\ UNCHANGED <<chunkVars, parseVars, callVars, extractVars, tableVars, serviceVars,
                   restVars>>

\* lines 100, 314 and 111-113: len() of a number or a boolean raises
ConfidenceFails ==
    /\ apc = "confidence"
    /\ ConfidenceRaises(key_info)
    /\ exception' = "TypeError"
    /\ apc' = "raised"
    /\ UNCHANGED <<questions, awaiting, field_i, question_i, summary, key_info,
                   form_analysis, recommendations, questions_answered,
                   confidence, dispatched, responses>>
    /\ UNCHANGED <<chunkVars, parseVars, callVars, extractVars, tableVars, serviceVars,
                   restVars>>

(***************************************************************************)
(* PDFParser._extract_text                                                 *)
(***************************************************************************)
MaxPages == 2

\* what get_text() may give for a page
PageTexts == {"", "a", " a", "a ", "\n", "a\n\nb"}

Documents == UNION {[1..n -> PageTexts] : n \in 0..MaxPages}

\* line 198: what a page adds to full_text
Delimited_None(page_text) == page_text

Delimited(page_text) == page_text \o "\n"

ExtractIdleVars ==
    /\ pages = <<>> /\ page_num = 0 /\ pages_text = <<>>
    /\ joined = "" /\ xpc = "idle"

\* lines 189-192: the call on the open document
ExtractInit ==
    /\ pages \in Documents
    /\ page_num = 0
    /\ pages_text = <<>>
    /\ joined = ""
    /\ xpc = "loop"

\* lines 194-198: one iteration of the loop over the pages
ExtractPage ==
    /\ xpc = "loop"
    /\ page_num < Len(pages)
    /\ LET page_text == pages[page_num + 1]
       IN  /\ pages_text' = Append(pages_text, page_text)
           /\ joined' = joined \o Delimited(page_text)
    /\ page_num' = page_num + 1
    /\ UNCHANGED <<pages, xpc>>
    /\ UNCHANGED <<chunkVars, parseVars, callVars, llmVars, tableVars, serviceVars,
                   restVars>>

\* line 200, and line 86 or 139 of the caller
ExtractReturn ==
    /\ xpc = "loop"
    /\ page_num >= Len(pages)
    /\ full_text' = Strip(joined)
    /\ xpc' = "returned"
    /\ UNCHANGED <<pages, page_num, pages_text, joined>>
    /\ UNCHANGED <<form_fields, tables, document_type, confidence_score, ppc>>
    /\ UNCHANGED <<chunkVars, callVars, llmVars, tableVars, serviceVars,
                   restVars>>

(***************************************************************************)
(* PDFParser._extract_tables and _extract_tables_from_bytes, which differ  *)
(* only in what they hand to pdfplumber.open, and the rest of parse_pdf.   *)
(***************************************************************************)
\* what extract_tables() may give for one table: rows of strings ("data"), a
\* single row ("header"), None ("none"), or rows of which one has a None
\* cell, as pdfplumber gives for an empty cell ("blank_cell")
TableKinds == {"data", "header", "none", "blank_cell"}

\* what extract_tables() may give for a page
PageTables ==
    { <<>>, <<"data">>, <<"header">>, <<"none">>, <<"blank_cell">>,
      <<"data", "data">>, <<"data", "blank_cell">>, <<"blank_cell", "data">>,
      <<"header", "data">>, <<"data", "none">> }

\* a page: extract_tables() raises, or gives its tables
PdfPages ==
    {[extracts |-> FALSE, page_tables |-> <<>>]}
        \cup {[extracts |-> TRUE, page_tables |-> pt] : pt \in PageTables}

\* a file: pdfplumber.open raises, or gives its pages
Pdfs ==
    {[opens |-> FALSE, pages |-> <<>>]}
        \cup {[opens |-> TRUE, pages |-> ps] :
                 ps \in UNION {[1..n -> PdfPages] : n \in 0..MaxPages}}

\* lines 232, 256: table and len(table) > 1
HasRows(table) == table \notin {"none", "header"}

\* lines 233, 257: "\t".join(row) raises TypeError on a None cell
JoinRaises(table) == table = "blank_cell"

\* lines 234-239, 258-263
TableDataOf(table, page_index) == [table_data |-> table, page_number |-> page_index + 1]

\* lines 86-92: the document is open, its text and fields are out, and
\* _extract_tables is called (lines 222-224)
TablesInit ==
    /\ full_text \in {"", "I-130"}
    /\ form_fields = <<>>
    /\ tables = <<>>
    /\ document_type = ""
    /\ confidence_score = -1
    /\ ppc = "tables"
    /\ pdf \in Pdfs
    /\ table_page = 0
    /\ table_i = 0
    /\ found = <<>>
    /\ table_error = FALSE
    /\ tpc = "open"

\* lines 227, 251: pdfplumber.open, and lines 240-241 if it raises
TablesOpen ==
    /\ tpc = "open"
    /\ tpc' = IF pdf.opens THEN "page" ELSE "failed"
    /\ table_error' = ~pdf.opens
    /\ UNCHANGED <<pdf, table_page, table_i, found>>
    /\ UNCHANGED <<chunkVars, parseVars, callVars, llmVars, extractVars, serviceVars,
                   restVars>>

\* lines 228-229, 252-253: the next page and its extract_tables()
TablesPage ==
    /\ tpc = "page"
    /\ table_page < Len(pdf.pages)
    /\ tpc' = IF pdf.pages[table_page + 1].extracts THEN "table" ELSE "failed"
    /\ table_error' = ~pdf.pages[table_page + 1].extracts
    /\ table_i' = 0
    /\ UNCHANGED <<pdf, table_page, found>>
    /\ UNCHANGED <<chunkVars, parseVars, callVars, llmVars, extractVars, serviceVars,
                   restVars>>

\* lines 231-239, 255-263: one table of the page
TablesTable ==
    /\ tpc = "table"
    /\ table_i < Len(pdf.pages[table_page + 1].page_tables)
    /\ LET table == pdf.pages[table_page + 1].page_tables[table_i + 1]
       IN  IF HasRows(table) /\ JoinRaises(table)
           THEN /\ tpc' = "failed"
                /\ table_error' = TRUE
                /\ UNCHANGED <<table_i, found>>
           ELSE /\ found' = IF HasRows(table)
                            THEN Append(found, TableDataOf(table, table_page))
                            ELSE found
                /\ table_i' = table_i + 1
                /\ UNCHANGED <<tpc, table_error>>
    /\ UNCHANGED <<pdf, table_page>>
    /\ UNCHANGED <<chunkVars, parseVars, callVars, llmVars, extractVars, serviceVars,
                   restVars>>

\* lines 231, 255: the tables of the page are done
TablesPageDone ==
    /\ tpc = "table"
    /\ table_i >= Len(pdf.pages[table_page + 1].page_tables)
    /\ table_page' = table_page + 1
    /\ tpc' = "page"
    /\ UNCHANGED <<pdf, table_i, found, table_error>>
    /\ UNCHANGED <<chunkVars, parseVars, callVars, llmVars, extractVars, serviceVars,
                   restVars>>

\* lines 243, 267 after the loop or after the except clause, and line 92 or
\* 145 of the caller
TablesReturn ==
    /\ \/ tpc = "failed"
       \/ tpc = "page" /\ table_page >= Len(pdf.pages)
    /\ ppc = "tables"
    /\ tables' = found
    /\ ppc' = "extracted"
    /\ tpc' = "returned"
    /\ UNCHANGED <<pdf, table_page, table_i, found, table_error>>
    /\ UNCHANGED <<full_text, form_fields, document_type, confidence_score>>
    /\ UNCHANGED <<chunkVars, callVars, llmVars, extractVars, serviceVars,
                   restVars>>

TableIdleVars ==
    /\ pdf = [opens |-> TRUE, pages |-> <<>>] /\ table_page = 0 /\ table_i = 0
    /\ found = <<>> /\ table_error = FALSE /\ tpc = "idle"

(***************************************************************************)
(* LLMService.__init__, _setup_provider, _call_llm and generate_faq        *)
(***************************************************************************)
\* lines 22-25
Providers == {"openai", "anthropic", "local"}

\* os.getenv(name): None, or the value of the variable
Unset == [set |-> FALSE, value |-> ""]
EnvVar(value) == [set |-> TRUE, value |-> value]
EnvValues == {Unset, EnvVar(""), EnvVar("sk-test")}

\* bool(os.getenv(name))
HasKey(v) == v.set /\ v.value # ""

\* lines 55-65: what _setup_provider raises, "" if nothing
SetupProvider(p, openai_key, anthropic_key) ==
    IF p = "openai" THEN
        (IF ~HasKey(openai_key)
         THEN "OPENAI_API_KEY environment variable not set" ELSE "")
    ELSE IF p = "anthropic" THEN
        (IF ~HasKey(anthropic_key)
         THEN "ANTHROPIC_API_KEY environment variable not set" ELSE "")
    ELSE ""

\* lines 246-251: does _call_llm have a provider to call
Supported(p) == p \in {"openai", "anthropic"}

\* line 376: [{"question": "Error parsing FAQ", "answer": content}]
FaqFallback(content) ==
    [kind |-> "list", keys |-> {}, size |-> 1, raw |-> "",
     items |-> <<[question |-> "Error parsing FAQ", answer |-> content]>>]

\* lines 373-376
GenerateFaq_RawResponse(content) ==
    IF JsonLoads(content).ok THEN JsonLoads(content).val
    ELSE RawResponse(content)

GenerateFaq(content) ==
    IF JsonLoads(content).ok THEN JsonLoads(content).val
    ELSE FaqFallback(content)

FaqResponses ==
    JsonResponses \cup MalformedResponses
        \cup {"[{\"question\": \"Who files?\", \"answer\": \"The petitioner.\"}]"}

NoFaq == JVal("unset", {}, 0)

ServiceIdleVars ==
    /\ provider = "openai" /\ openai_api_key = Unset /\ anthropic_api_key = Unset
    /\ spc = "idle" /\ faq = NoFaq /\ served = <<>> /\ service_error = ""

\* line 50: the call LLMService(provider), in some environment
ServiceInit ==
    /\ provider \in Providers
    /\ openai_api_key \in EnvValues
    /\ anthropic_api_key \in EnvValues
    /\ spc = "new"
    /\ faq = NoFaq
    /\ served = <<>>
    /\ service_error = ""

\* lines 51-65
Construct ==
    /\ spc = "new"
    /\ service_error' = SetupProvider(provider, openai_api_key, anthropic_api_key)
    /\ spc' = IF service_error' = "" THEN "constructed" ELSE "raised"
    /\ UNCHANGED <<provider, openai_api_key, anthropic_api_key, faq, served>>
    /\ UNCHANGED <<chunkVars, parseVars, callVars, llmVars, extractVars, tableVars,
                   restVars>>

\* lines 358-371 with 244-251: generate_faq builds its prompt and makes the
\* first _call_llm of the service
FaqCall ==
    /\ spc = "constructed"
    /\ spc' = IF Supported(provider) THEN "calling" ELSE "raised"
    /\ service_error' = IF Supported(provider) THEN ""
                        ELSE "Unsupported provider: LLMProvider.LOCAL"
    /\ UNCHANGED <<provider, openai_api_key, anthropic_api_key, faq, served>>
    /\ UNCHANGED <<chunkVars, parseVars, callVars, llmVars, extractVars, tableVars,
                   restVars>>

\* lines 275-277 or 300-302: the provider call fails, nothing catches it
FaqProviderFails ==
    /\ spc = "calling"
    /\ served' = Append(served, Failed)
    /\ service_error' = "ProviderCallFailed"
    /\ spc' = "raised"
    /\ UNCHANGED <<provider, openai_api_key, anthropic_api_key, faq>>
    /\ UNCHANGED <<chunkVars, parseVars, callVars, llmVars, extractVars, tableVars,
                   restVars>>

\* lines 371-376
FaqReturns ==
    /\ spc = "calling"
    /\ \E content \in FaqResponses :
          /\ served' = Append(served, Received(content))
          /\ faq' = GenerateFaq(content)
    /\ spc' = "returned"
    /\ UNCHANGED <<provider, openai_api_key, anthropic_api_key, service_error>>
    /\ UNCHANGED <<chunkVars, parseVars, callVars, llmVars, extractVars, tableVars,
                   restVars>>

(***************************************************************************)
(* The methods of LLMService that build one kind of prompt, each called on *)
(* its own on a parsed document (api.py calls _generate_summary,           *)
(* _answer_question, translate_document and simplify_language directly).   *)
(***************************************************************************)
MethodKinds ==
    {"summary", "key_info", "field", "recommendations", "question",
     "translate", "simplify", "faq"}

Languages == {"Spanish"}

\* the calls: the method and its second argument, if it has one
Methods ==
    {[kind |-> k, about |-> ""] : k \in MethodKinds \ {"question", "translate"}}
        \cup {[kind |-> "question", about |-> q] : q \in QuestionSet}
        \cup {[kind |-> "translate", about |-> l] : l \in Languages}

\* a text of n characters whose first and last characters differ
LongText(n) == "I-130 Petition for Alien Relative " \o Pad(n - 35) \o "."

\* texts shorter than, as long as and longer than each of the budgets
MethodTexts ==
    {"", "I-130 Petition for Alien Relative"}
        \cup {LongText(n) : n \in {FaqChars, FaqChars + 1, TranslateChars + 1,
                                   SummaryChars, SummaryChars + 1}}

MethodResponses(kind) ==
    CASE kind = "translate" -> {"", "Esta es la forma I-130."}
      [] kind = "simplify" -> {"", "This form asks the government to recognise a relative."}
      [] kind = "faq" -> FaqResponses
      [] kind = "recommendations" ->
           ResponsesTo(kind) \cup {"\n", "File the form", " 1. File \r\n\n\t2. Pay "}
      [] OTHER -> ResponsesTo(kind)

NoResult == [kind |-> "unset"]

MethodIdleVars ==
    /\ method = [kind |-> "summary", about |-> ""] /\ method_slot = 0
    /\ prompts = <<>> /\ received = <<>> /\ result = NoResult /\ mpc = "idle"

\* a document parse_pdf returned (lines 105-114), short or long
LongDocVars ==
    /\ full_text \in MethodTexts
    /\ form_fields \in FieldLists
    /\ tables = <<>>
    /\ document_type = ClassifyDocument(full_text)
    /\ confidence_score = CalculateConfidence(full_text, form_fields, tables)
    /\ ppc = "scored"

MethodInit ==
    /\ method \in Methods
    /\ method_slot = 0
    /\ prompts = <<>>
    /\ received = <<>>
    /\ result = NoResult
    /\ mpc = "called"

\* what the prompt of the method is about
About == IF method.kind = "field" THEN form_fields[method_slot + 1] ELSE method.about

\* the value a method returns for the response content (lines 137, 164-168,
\* 225, 242, 340, 354, 373-376)
Returned(kind, content) ==
    CASE kind = "key_info" -> [kind |-> kind, value |-> ExtractKeyInformation(content)]
      [] kind = "recommendations" -> [kind |-> kind, value |-> SplitLines(content)]
      [] kind = "faq" -> [kind |-> kind, value |-> GenerateFaq(content)]
      [] OTHER -> [kind |-> kind, value |-> content]

\* lines 172-173: _analyze_form_fields returns [] for a document without
\* fields; otherwise the method builds its prompt and awaits _call_llm
MethodCall ==
    /\ mpc = "called"
    /\ IF method.kind = "field" /\ form_fields = <<>>
       THEN /\ result' = [kind |-> "field", value |-> <<>>]
            /\ mpc' = "returned"
            /\ UNCHANGED prompts
       ELSE /\ prompts' = Append(prompts, Prompt(method.kind, method_slot, About))
            /\ mpc' = "awaiting"
            /\ result' = IF method.kind = "field"
                         THEN [kind |-> "field", value |-> <<>>] ELSE result
    /\ UNCHANGED <<method, method_slot, received>>
    /\ UNCHANGED <<chunkVars, parseVars, callVars, llmVars, extractVars, tableVars,
                   serviceVars, apiVars, itemVars>>

\* lines 275-277 or 300-302: the provider call fails, no method catches it
MethodFails ==
    /\ mpc = "awaiting"
    /\ mpc' = "raised"
    /\ result' = NoResult
    /\ UNCHANGED <<method, method_slot, prompts, received>>
    /\ UNCHANGED <<chunkVars, parseVars, callVars, llmVars, extractVars, tableVars,
                   serviceVars, apiVars, itemVars>>

\* lines 195-202: the guidance is appended and the loop goes on to the next
\* field's prompt, or returns after the last field (line 204)
FieldGuidance ==
    /\ mpc = "awaiting" /\ method.kind = "field"
    /\ \E content \in MethodResponses("field") :
          /\ received' = Append(received, content)
          /\ result' = [result EXCEPT !.value =
                          Append(@, [field_name |-> form_fields[method_slot + 1],
                                     guidance |-> content])]
    /\ method_slot' = method_slot + 1
    /\ IF method_slot' < Len(form_fields)
       THEN /\ prompts' = Append(prompts, Prompt("field", method_slot',
                                                 form_fields[method_slot' + 1]))
            /\ mpc' = "awaiting"
       ELSE /\ mpc' = "returned"
            /\ UNCHANGED prompts
    /\ UNCHANGED method
    /\ UNCHANGED <<chunkVars, parseVars, callVars, llmVars, extractVars, tableVars,
                   serviceVars, apiVars, itemVars>>

\* lines 137, 162-168, 224-225, 241-242, 339-340, 353-354, 371-376
MethodReturns ==
    /\ mpc = "awaiting" /\ method.kind # "field"
    /\ \E content \in MethodResponses(method.kind) :
          /\ received' = Append(received, content)
          /\ result' = Returned(method.kind, content)
    /\ mpc' = "returned"
    /\ UNCHANGED <<method, method_slot, prompts>>
    /\ UNCHANGED <<chunkVars, parseVars, callVars, llmVars, extractVars, tableVars,
                   serviceVars, apiVars, itemVars>>


(***************************************************************************)
(* api.py: the request handlers over document_cache and analysis_cache.    *)
(* The handlers are coroutines on one event loop: the code between two     *)
(* awaits runs without interruption, and any other handler may run while   *)
(* one is suspended at an await.                                           *)
(***************************************************************************)
MaxRequests == 3

NoDocument ==
    [full_text |-> "", form_fields |-> <<>>, tables |-> <<>>,
     document_type |-> "", confidence_score |-> -1]

\* the bytes of an upload: the step of parse_pdf_from_bytes that raises on
\* them ("none" for a readable PDF) and what the extraction steps get out
Contents ==
    {[fails |-> "open", oversize |-> FALSE, text |-> "", fields |-> <<>>],
     [fails |-> "images", oversize |-> FALSE,
      text |-> "I-130 Petition for Alien Relative", fields |-> <<"given_name">>],
     [fails |-> "none", oversize |-> FALSE,
      text |-> "I-130 Petition for Alien Relative", fields |-> <<"given_name">>],
     [fails |-> "none", oversize |-> TRUE, text |-> "", fields |-> <<>>]}

Readable == CHOOSE c \in Contents : c.fails = "none" /\ ~c.oversize /\ c.text # ""

Uploads ==
    {[filename |-> "form.PDF", content |-> c] : c \in Contents}
        \cup {[filename |-> "notes.txt", content |-> Readable]}

NoUpload == [filename |-> "", content |-> Readable]

\* pdf_parser.py lines 148-161: the ParsedDocument of a readable PDF
ParsedDocumentOf(content) ==
    [full_text |-> content.text, form_fields |-> content.fields, tables |-> <<>>,
     document_type |-> ClassifyDocument(content.text),
     confidence_score |-> CalculateConfidence(content.text, content.fields, <<>>)]

\* pdf_parser.py lines 130-171: any exception of a step is logged and raised
\* again, and the ParsedDocument is built only after the last step
ParsePdfFromBytes_Partial(content) ==
    IF content.fails = "open" THEN [ok |-> FALSE, doc |-> NoDocument]
    ELSE [ok |-> TRUE, doc |-> ParsedDocumentOf(content)]

ParsePdfFromBytes(content) ==
    IF content.fails # "none" THEN [ok |-> FALSE, doc |-> NoDocument]
    ELSE [ok |-> TRUE, doc |-> ParsedDocumentOf(content)]

\* api.py lines 119 and 130
IsPdfName(filename) == Len(filename) >= 4 /\ Lower(Slice(filename, -4, Len(filename))) = ".pdf"

\* the orchestrator methods only read parsed_doc (llm_service.py lines
\* 67-376 assign to no attribute of it): the document after an operation
AfterOperation_ScalesConfidence(handler, doc) ==
    [doc EXCEPT !.confidence_score = (@ * 8) \div 10]

AfterOperation(handler, doc) == doc

\* the exceptions the handlers raise or catch
NotFound == "HTTPException(404, Document not found)"
NotPdf == "HTTPException(400, Only PDF files are allowed)"
TooLarge == "HTTPException(400, File size exceeds 50MB limit)"
InvalidType == "HTTPException(400, Invalid analysis type)"
ParseError == "Exception(parse_pdf_from_bytes)"
ProviderError == "Exception(_call_llm)"

\* the replies
NoReply == [status |-> 0, body |-> "", detail |-> "", caught |-> ""]
Ok(body) == [status |-> 200, body |-> body, detail |-> "", caught |-> ""]
\* raise HTTPException(status_code=500, detail=f"{prefix}: {str(e)}") in the
\* handler's except Exception clause
Reraised(prefix, e) == [status |-> 500, body |-> "", detail |-> prefix, caught |-> e]
\* lines 225-231: AnalysisResponse(status="error", error=str(e))
AnalysisError(e) == [status |-> 200, body |-> "error", detail |-> "", caught |-> e]

ErrorPrefix ==
    [upload_pdf |-> "Error processing PDF",
     ask_question |-> "Error answering question",
     translate_document |-> "Error translating document",
     simplify_document |-> "Error simplifying document",
     get_document_status |-> "Error getting document status",
     list_documents |-> "Error listing documents",
     delete_document |-> "Error deleting document"]

\* what the handler's except clause makes of the exception e
Caught(handler, e) ==
    IF handler = "analyze_document" THEN AnalysisError(e)
    ELSE Reraised(ErrorPrefix[handler], e)

AnalysisRequests ==
    {[analysis_type |-> "comprehensive", questions |-> <<"What is the deadline?">>],
     [analysis_type |-> "summary", questions |-> <<>>],
     [analysis_type |-> "qa", questions |-> <<"What is the deadline?">>],
     [analysis_type |-> "qa", questions |-> <<>>]}

\* lines 185-205: the LLM calls the analysis awaits, 0 for an invalid request
Awaits(request, doc) ==
    CASE request.analysis_type = "comprehensive" ->
           3 + Len(doc.form_fields) + Len(request.questions)
      [] request.analysis_type = "summary" -> 1
      [] request.analysis_type = "qa" -> Len(request.questions)
      [] OTHER -> 0

\* the ids a client may name: those an upload has answered with (lines
\* 149-150), and one never issued
RequestIds ==
    {0} \cup {frames[r].document_id :
                 r \in {q \in DOMAIN frames :
                           /\ frames[q].handler = "upload_pdf"
                           /\ frames[q].reply.status = 200}}

Frame(handler, id) ==
    [handler |-> handler, document_id |-> id, analysis_type |-> "",
     questions |-> <<>>, upload |-> NoUpload, stage |-> "done", awaits |-> 0,
     analysis_id |-> 0, parsed_doc |-> NoDocument, missing |-> FALSE,
     reply |-> NoReply]

Answered(r, reply) == [frames EXCEPT ![r].stage = "done", ![r].reply = reply]

ApiInit ==
    /\ document_cache = <<>>
    /\ analysis_cache = <<>>
    /\ uuids = 0
    /\ frames = <<>>

ApiIdleVars == ApiInit

Without(cache, ids) == [k \in DOMAIN cache \ ids |-> cache[k]]

With(cache, k, entry) ==
    [j \in DOMAIN cache \cup {k} |-> IF j = k THEN entry ELSE cache[j]]

\* lines 117-127: the file name is checked, the document id drawn, and the
\* handler awaits the content
UploadReceive ==
    /\ Len(frames) < MaxRequests
    /\ \E upload \in Uploads :
          IF ~IsPdfName(upload.filename)
          THEN /\ frames' = Append(frames,
                       [Frame("upload_pdf", 0) EXCEPT
                           !.upload = upload,
                           !.reply = Caught("upload_pdf", NotPdf)])
               /\ UNCHANGED uuids
          ELSE /\ uuids' = uuids + 1
               /\ frames' = Append(frames,
                       [Frame("upload_pdf", uuids') EXCEPT
                           !.upload = upload, !.stage = "reading"])
    /\ UNCHANGED <<document_cache, analysis_cache>>
    /\ UNCHANGED <<chunkVars, parseVars, callVars, llmVars, extractVars, tableVars,
                   serviceVars, methodVars, itemVars>>

\* lines 129-160: the size is checked, the content parsed, and the document
\* stored only once parse_pdf_from_bytes has returned
UploadParse ==
    /\ \E r \in DOMAIN frames :
          /\ frames[r].handler = "upload_pdf" /\ frames[r].stage = "reading"
          /\ LET f == frames[r]
                 parsed == ParsePdfFromBytes(f.upload.content)
             IN  IF f.upload.content.oversize
                 THEN /\ frames' = Answered(r, Caught("upload_pdf", TooLarge))
                      /\ UNCHANGED document_cache
                 ELSE IF ~parsed.ok
                 THEN /\ frames' = Answered(r, Caught("upload_pdf", ParseError))
                      /\ UNCHANGED document_cache
                 ELSE /\ document_cache' =
                            With(document_cache, f.document_id,
                                 [parsed_doc |-> parsed.doc,
                                  filename |-> f.upload.filename])
                      /\ frames' = [Answered(r, Ok("success")) EXCEPT
                                       ![r].parsed_doc = parsed.doc]
    /\ UNCHANGED <<analysis_cache, uuids>>
    /\ UNCHANGED <<chunkVars, parseVars, callVars, llmVars, extractVars, tableVars,
                   serviceVars, methodVars, itemVars>>

\* lines 173-205: the document is looked up, the analysis id drawn, and the
\* handler awaits the first LLM call of the analysis
AnalyzeReceive ==
    /\ Len(frames) < MaxRequests
    /\ \E id \in RequestIds, request \in AnalysisRequests :
          LET f == [Frame("analyze_document", id) EXCEPT
                       !.analysis_type = request.analysis_type,
                       !.questions = request.questions]
          IN  IF id \notin DOMAIN document_cache
              THEN /\ frames' = Append(frames,
                          [f EXCEPT !.missing = TRUE,
                                    !.reply = Caught("analyze_document", NotFound)])
                   /\ UNCHANGED uuids
              ELSE /\ uuids' = uuids + 1
                   /\ LET doc == document_cache[id].parsed_doc
                          g == [f EXCEPT !.analysis_id = uuids', !.parsed_doc = doc]
                      IN  frames' = Append(frames,
                              IF Awaits(request, doc) = 0
                              THEN [g EXCEPT !.reply =
                                        Caught("analyze_document", InvalidType)]
                              ELSE [g EXCEPT !.stage = "awaiting",
                                             !.awaits = Awaits(request, doc)])
    /\ UNCHANGED <<document_cache, analysis_cache>>
    /\ UNCHANGED <<chunkVars, parseVars, callVars, llmVars, extractVars, tableVars,
                   serviceVars, methodVars, itemVars>>

LlmHandlers == {"ask_question", "translate_document", "simplify_document"}

\* lines 244-253, 281-293, 318-327: the document is looked up and the
\* handler awaits its LLM call
LlmRequestReceive ==
    /\ Len(frames) < MaxRequests
    /\ \E id \in RequestIds, handler \in LlmHandlers :
          frames' = Append(frames,
              IF id \notin DOMAIN document_cache
              THEN [Frame(handler, id) EXCEPT
                       !.missing = TRUE, !.reply = Caught(handler, NotFound)]
              ELSE [Frame(handler, id) EXCEPT
                       !.stage = "awaiting", !.awaits = 1,
                       !.parsed_doc = document_cache[id].parsed_doc])
    /\ UNCHANGED <<document_cache, analysis_cache, uuids>>
    /\ UNCHANGED <<chunkVars, parseVars, callVars, llmVars, extractVars, tableVars,
                   serviceVars, methodVars, itemVars>>

\* the document of frame r, which the cache holds too unless it was deleted
Held(r) ==
    IF frames[r].document_id \in DOMAIN document_cache
    THEN document_cache[frames[r].document_id].parsed_doc
    ELSE frames[r].parsed_doc

\* an awaited LLM call returns to its handler, which runs on to its next
\* await or to its end: lines 207-223 store the analysis under the analysis
\* id and answer; lines 255-264, 295-301, 329-335 answer
LlmReturns ==
    /\ \E r \in DOMAIN frames :
          /\ frames[r].stage = "awaiting"
          /\ LET f == frames[r]
                 doc == AfterOperation(f.handler, Held(r))
                 last == f.awaits = 1
             IN  /\ document_cache' =
                        IF f.document_id \in DOMAIN document_cache
                        THEN [document_cache EXCEPT ![f.document_id].parsed_doc = doc]
                        ELSE document_cache
                 /\ frames' =
                        IF last
                        THEN [Answered(r, Ok(IF f.handler = "analyze_document"
                                            THEN "completed" ELSE "answered"))
                                EXCEPT ![r].awaits = 0, ![r].parsed_doc = doc]
                        ELSE [frames EXCEPT ![r].awaits = @ - 1, ![r].parsed_doc = doc]
                 /\ analysis_cache' =
                        IF last /\ f.handler = "analyze_document"
                        THEN With(analysis_cache, f.analysis_id,
                                  [document_id |-> f.document_id,
                                   analysis_type |-> f.analysis_type])
                        ELSE analysis_cache
    /\ UNCHANGED uuids
    /\ UNCHANGED <<chunkVars, parseVars, callVars, llmVars, extractVars, tableVars,
                   serviceVars, methodVars, itemVars>>

\* an awaited LLM call raises: the handler's except clause answers
LlmFails ==
    /\ \E r \in DOMAIN frames :
          /\ frames[r].stage = "awaiting"
          /\ frames' = Answered(r, Caught(frames[r].handler, ProviderError))
    /\ UNCHANGED <<document_cache, analysis_cache, uuids>>
    /\ UNCHANGED <<chunkVars, parseVars, callVars, llmVars, extractVars, tableVars,
                   serviceVars, methodVars, itemVars>>

\* lines 352-378
GetDocumentStatus ==
    /\ Len(frames) < MaxRequests
    /\ \E id \in RequestIds :
          frames' = Append(frames,
              IF id \notin DOMAIN document_cache
              THEN [Frame("get_document_status", id) EXCEPT
                       !.missing = TRUE,
                       !.reply = Caught("get_document_status", NotFound)]
              ELSE [Frame("get_document_status", id) EXCEPT
                       !.parsed_doc = document_cache[id].parsed_doc,
                       !.reply = Ok("status")])
    /\ UNCHANGED <<document_cache, analysis_cache, uuids>>
    /\ UNCHANGED <<chunkVars, parseVars, callVars, llmVars, extractVars, tableVars,
                   serviceVars, methodVars, itemVars>>

\* lines 388-408
ListDocuments ==
    /\ Len(frames) < MaxRequests
    /\ frames' = Append(frames, [Frame("list_documents", 0) EXCEPT !.reply = Ok("documents")])
    /\ UNCHANGED <<document_cache, analysis_cache, uuids>>
    /\ UNCHANGED <<chunkVars, parseVars, callVars, llmVars, extractVars, tableVars,
                   serviceVars, methodVars, itemVars>>

\* lines 421-443: the document and the analyses stored for it are removed
DeleteDocument ==
    /\ Len(frames) < MaxRequests
    /\ \E id \in RequestIds :
          IF id \notin DOMAIN document_cache
          THEN /\ frames' = Append(frames,
                       [Frame("delete_document", id) EXCEPT
                           !.missing = TRUE,
                           !.reply = Caught("delete_document", NotFound)])
               /\ UNCHANGED <<document_cache, analysis_cache>>
          ELSE /\ document_cache' = Without(document_cache, {id})
               /\ analysis_cache' =
                    Without(analysis_cache,
                            {a \in DOMAIN analysis_cache :
                                analysis_cache[a].document_id = id})
               /\ frames' = Append(frames,
                       [Frame("delete_document", id) EXCEPT !.reply = Ok("deleted")])
    /\ UNCHANGED uuids
    /\ UNCHANGED <<chunkVars, parseVars, callVars, llmVars, extractVars, tableVars,
                   serviceVars, methodVars, itemVars>>

\* lines 446-453
HealthCheck ==
    /\ Len(frames) < MaxRequests
    /\ frames' = Append(frames, [Frame("health_check", 0) EXCEPT !.reply = Ok("healthy")])
    /\ UNCHANGED <<document_cache, analysis_cache, uuids>>
    /\ UNCHANGED <<chunkVars, parseVars, callVars, llmVars, extractVars, tableVars,
                   serviceVars, methodVars, itemVars>>

(***************************************************************************)
(* PDFParser._extract_metadata, _extract_form_fields and                   *)
(* _extract_images_info, with the table extraction between them as in      *)
(* parse_pdf_from_bytes (lines 139-151).                                   *)
(***************************************************************************)
\* what page.widgets() may give for a page: the field names, "" for none
PageWidgets == {<<>>, <<"given_name">>, <<"", "a_number">>}

\* the pixmaps of the images of a page: [n, alpha]
Rgb == [n |-> 3, alpha |-> 0]
Rgba == [n |-> 4, alpha |-> 1]
Cmyk == [n |-> 4, alpha |-> 0]
PageImages == {<<>>, <<Rgb>>, <<Cmyk, Rgba>>}

\* the documents fitz.open gives
FitzDocs ==
    UNION {[page_count : {n}, widgets : [1..n -> PageWidgets],
            images : [1..n -> PageImages]] : n \in 0..MaxPages}

\* the pages pdfplumber may find in a file of n pages
ItemPdfPages ==
    {[extracts |-> FALSE, page_tables |-> <<>>]}
        \cup {[extracts |-> TRUE, page_tables |-> pt] :
                 pt \in {<<>>, <<"data">>, <<"header", "data">>}}

ItemPdfs(n) ==
    {[opens |-> FALSE, pages |-> <<>>]}
        \cup {[opens |-> TRUE, pages |-> ps] : ps \in [1..n -> ItemPdfPages]}

\* f"field_{n}"
FieldLabel(n) == "field_" \o CharAt("0123456789", n)

\* lines 211-217
FormFieldOf_ZeroBased(field_name, n, page_index) ==
    [field_name |-> IF field_name # "" THEN field_name ELSE FieldLabel(n),
     page_number |-> page_index]

FormFieldOf(field_name, n, page_index) ==
    [field_name |-> IF field_name # "" THEN field_name ELSE FieldLabel(n),
     page_number |-> page_index + 1]

\* lines 210-218: the widgets of one page
RECURSIVE ExtractWidgets(_, _, _)
ExtractWidgets(fields, page_widgets, page_index) ==
    IF page_widgets = <<>> THEN fields
    ELSE ExtractWidgets(
             Append(fields, FormFieldOf(Head(page_widgets), Len(fields), page_index)),
             Tail(page_widgets), page_index)

\* line 281: GRAY or RGB
Kept(pix) == pix.n - pix.alpha < 4

\* lines 277-291: the images of one page, from image img_index on
RECURSIVE ExtractImages(_, _, _, _)
ExtractImages(infos, page_images, img_index, page_index) ==
    IF img_index >= Len(page_images) THEN infos
    ELSE ExtractImages(
             IF Kept(page_images[img_index + 1])
             THEN Append(infos, [page_number |-> page_index + 1,
                                 image_index |-> img_index])
             ELSE infos,
             page_images, img_index + 1, page_index)

ItemIdleVars ==
    /\ fitz_doc = [page_count |-> 0, widgets |-> <<>>, images |-> <<>>]
    /\ page_count = -1 /\ item_page = 0 /\ images_info = <<>> /\ ipc = "idle"

\* line 136: the document is open
ItemsInit ==
    /\ fitz_doc \in FitzDocs
    /\ pdf \in ItemPdfs(fitz_doc.page_count)
    /\ page_count = -1 /\ item_page = 0 /\ images_info = <<>> /\ ipc = "metadata"
    /\ full_text \in {"", "I-130"}
    /\ form_fields = <<>> /\ tables = <<>>
    /\ document_type = "" /\ confidence_score = -1 /\ ppc = "fields"
    /\ table_page = 0 /\ table_i = 0 /\ found = <<>>
    /\ table_error = FALSE /\ tpc = "idle"

\* lines 139 and 185
ItemsMetadata ==
    /\ ipc = "metadata"
    /\ page_count' = fitz_doc.page_count
    /\ ipc' = "fields"
    /\ UNCHANGED <<fitz_doc, item_page, images_info>>
    /\ UNCHANGED <<chunkVars, parseVars, callVars, llmVars, extractVars, tableVars,
                   serviceVars, methodVars, apiVars>>

\* lines 206-218: one page of the loop of _extract_form_fields
FieldsPage ==
    /\ ipc = "fields"
    /\ item_page < fitz_doc.page_count
    /\ form_fields' = ExtractWidgets(form_fields, fitz_doc.widgets[item_page + 1], item_page)
    /\ item_page' = item_page + 1
    /\ UNCHANGED <<fitz_doc, page_count, images_info, ipc>>
    /\ UNCHANGED <<full_text, tables, document_type, confidence_score, ppc>>
    /\ UNCHANGED <<chunkVars, callVars, llmVars, extractVars, tableVars,
                   serviceVars, methodVars, apiVars>>

\* lines 220 and 145-148: the fields are out and the tables are next
FieldsReturn ==
    /\ ipc = "fields"
    /\ item_page >= fitz_doc.page_count
    /\ ipc' = "images"
    /\ item_page' = 0
    /\ ppc' = "tables"
    /\ tpc' = "open"
    /\ UNCHANGED <<fitz_doc, page_count, images_info>>
    /\ UNCHANGED <<full_text, form_fields, tables, document_type, confidence_score>>
    /\ UNCHANGED <<pdf, table_page, table_i, found, table_error>>
    /\ UNCHANGED <<chunkVars, callVars, llmVars, extractVars, serviceVars,
                   methodVars, apiVars>>

\* lines 273-291: one page of the loop of _extract_images_info, which runs
\* once the tables are back (line 151)
ImagesPage ==
    /\ ipc = "images" /\ ppc = "extracted"
    /\ item_page < fitz_doc.page_count
    /\ images_info' = ExtractImages(images_info, fitz_doc.images[item_page + 1], 0, item_page)
    /\ item_page' = item_page + 1
    /\ UNCHANGED <<fitz_doc, page_count, ipc>>
    /\ UNCHANGED <<chunkVars, parseVars, callVars, llmVars, extractVars, tableVars,
                   serviceVars, methodVars, apiVars>>

\* line 293
ImagesReturn ==
    /\ ipc = "images" /\ ppc = "extracted"
    /\ item_page >= fitz_doc.page_count
    /\ ipc' = "returned"
    /\ UNCHANGED <<fitz_doc, page_count, item_page, images_info>>
    /\ UNCHANGED <<chunkVars, parseVars, callVars, llmVars, extractVars, tableVars,
                   serviceVars, methodVars, apiVars>>

RestIdleVars == MethodIdleVars /\ ApiIdleVars /\ ItemIdleVars

(***************************************************************************)
(* Specifications.                                                         *)
(***************************************************************************)
LaterIdleVars ==
    ExtractIdleVars /\ TableIdleVars /\ ServiceIdleVars /\ RestIdleVars

InitChunk == ChunkInit /\ ParseIdleVars /\ CallIdleVars /\ LLMIdleVars /\ LaterIdleVars
NextChunk == ChunkStep \/ ChunkReturn
SpecChunk == InitChunk /\ [][NextChunk]_vars

InitParse == ParseInit /\ ChunkIdleVars /\ CallIdleVars /\ LLMIdleVars /\ LaterIdleVars
NextParse == ParseClassify \/ ParseScore
SpecParse == InitParse /\ [][NextParse]_vars

InitClassifyCalls ==
    ChunkIdleVars /\ ParseIdleVars /\ CallIdleVars /\ LLMIdleVars /\ LaterIdleVars
NextClassifyCalls == ClassifyCall
SpecClassifyCalls == InitClassifyCalls /\ [][NextClassifyCalls]_vars

InitAnalyze ==
    ParsedDocVars /\ AnalyzeInit /\ ChunkIdleVars /\ CallIdleVars /\ LaterIdleVars
NextAnalyze ==
    \/ Dispatch
    \/ ProviderFails
    \/ SummaryReturns
    \/ KeyInfoReturns
    \/ FieldReturns
    \/ RecommendationsReturn
    \/ AnswerReturns
    \/ AnalysisReturns
    \/ ConfidenceFails
SpecAnalyze == InitAnalyze /\ [][NextAnalyze]_vars

InitExtractText ==
    /\ ExtractInit /\ ParseIdleVars /\ ChunkIdleVars /\ CallIdleVars /\ LLMIdleVars
    /\ TableIdleVars /\ ServiceIdleVars /\ RestIdleVars
NextExtractText == ExtractPage \/ ExtractReturn
SpecExtractText == InitExtractText /\ [][NextExtractText]_vars

InitExtractTables ==
    /\ TablesInit /\ ChunkIdleVars /\ CallIdleVars /\ LLMIdleVars
    /\ ExtractIdleVars /\ ServiceIdleVars /\ RestIdleVars
NextExtractTables ==
    \/ TablesOpen
    \/ TablesPage
    \/ TablesTable
    \/ TablesPageDone
    \/ TablesReturn
    \/ ParseClassify
    \/ ParseScore
SpecExtractTables == InitExtractTables /\ [][NextExtractTables]_vars

InitService ==
    /\ ParsedDocVars /\ ServiceInit /\ ChunkIdleVars /\ CallIdleVars /\ LLMIdleVars
    /\ ExtractIdleVars /\ TableIdleVars /\ RestIdleVars
NextService == Construct \/ FaqCall \/ FaqProviderFails \/ FaqReturns
SpecService == InitService /\ [][NextService]_vars

InitMethods ==
    /\ LongDocVars /\ MethodInit /\ ChunkIdleVars /\ CallIdleVars /\ LLMIdleVars
    /\ ExtractIdleVars /\ TableIdleVars /\ ServiceIdleVars /\ ApiIdleVars
    /\ ItemIdleVars
NextMethods == MethodCall \/ MethodFails \/ FieldGuidance \/ MethodReturns
SpecMethods == InitMethods /\ [][NextMethods]_vars

InitApi ==
    /\ ApiInit /\ ParseIdleVars /\ ChunkIdleVars /\ CallIdleVars /\ LLMIdleVars
    /\ ExtractIdleVars /\ TableIdleVars /\ ServiceIdleVars /\ MethodIdleVars
    /\ ItemIdleVars
NextApi ==
    \/ UploadReceive
    \/ UploadParse
    \/ AnalyzeReceive
    \/ LlmRequestReceive
    \/ LlmReturns
    \/ LlmFails
    \/ GetDocumentStatus
    \/ ListDocuments
    \/ DeleteDocument
    \/ HealthCheck
SpecApi == InitApi /\ [][NextApi]_vars

InitExtractItems ==
    /\ ItemsInit /\ ChunkIdleVars /\ CallIdleVars /\ LLMIdleVars
    /\ ExtractIdleVars /\ ServiceIdleVars /\ MethodIdleVars /\ ApiIdleVars
NextExtractItems ==
    \/ ItemsMetadata
    \/ FieldsPage
    \/ FieldsReturn
    \/ TablesOpen
    \/ TablesPage
    \/ TablesTable
    \/ TablesPageDone
    \/ TablesReturn
    \/ ImagesPage
    \/ ImagesReturn
SpecExtractItems == InitExtractItems /\ [][NextExtractItems]_vars

(***************************************************************************)
(* Claims about extract_text_chunks, under SpecChunk.                      *)
(***************************************************************************)
ValidChunkConfig == chunk_size >= 1 /\ 0 <= overlap /\ overlap < chunk_size

\* C1: with chunk_size >= 1 and 0 <= overlap < chunk_size the loop always
\* reaches a window start at or past the text length: it never gets to a
\* start from which the while test can no longer fail.
C1_Terminates == ValidChunkConfig => cpc # "diverged"

\* the end the chunker is meant to give a window from st that stops short of
\* the end of the text: just after the last '.' or newline of the window if
\* that lies past the window's midpoint, else the full window
MidpointEnd(st) ==
    LET break_point == BreakPoint(Slice(text, st, st + chunk_size))
    IN  IF break_point > chunk_size \div 2 THEN st + break_point + 1
        ELSE st + chunk_size

\* C2: every window that does not reach the end of the text, whatever its
\* start, ends just after its last '.' or newline when that lies past the
\* window's midpoint, and is the full chunk_size window otherwise.
C2_BreaksPastMidpoint ==
    \A k \in 1..Len(windows) :
        (windows[k][1] >= 0 /\ windows[k][1] + chunk_size < Len(text))
            => windows[k][2] = MidpointEnd(windows[k][1])

\* C3: a call with overlap >= chunk_size is rejected before any chunk is
\* produced: it neither appends a chunk, nor returns, nor loops.
C3_RejectsBadConfig ==
    overlap >= chunk_size => (chunks = <<>> /\ cpc \notin {"done", "diverged"})

(***************************************************************************)
(* Claims about _classify_document and _calculate_confidence.              *)
(***************************************************************************)
Classified == ppc \in {"classified", "scored"}

\* the order the registry is pinned to
PinnedOrder ==
    <<"I-130", "I-485", "I-765", "I-821D", "I-90", "N-400", "I-864", "I-693",
      "G-1145", "I-131">>

RegistryLabels == {PinnedOrder[i] : i \in 1..Len(PinnedOrder)}

\* the patterns registered for a label
PatternsOf(l) ==
    UNION {form_patterns[i].patterns :
              i \in {j \in 1..Len(form_patterns) : form_patterns[j].form_type = l}}

\* the positions in PinnedOrder of the labels a lowercased text matches
MatchedLabels(tl) ==
    {i \in 1..Len(PinnedOrder) :
        \E p \in PatternsOf(PinnedOrder[i]) : Contains(tl, p)}

\* C4: a text matching the patterns of several registry labels is given the
\* label that comes first in the pinned order; a text with both "I-130" and
\* "I-485", in any letter case, is an I-130.
C4_PinnedRegistryOrder ==
    Classified =>
        LET tl == Lower(full_text)
            matched == MatchedLabels(tl)
        IN  /\ matched # {} => document_type = PinnedOrder[SetMin(matched)]
            /\ (Contains(tl, "i-130") /\ Contains(tl, "i-485"))
                  => document_type = "I-130"

C4_Witness ==
    /\ ppc = "classified"
    /\ full_text = "I-485 i-130"
    /\ document_type = "I-130"

GenericLabels ==
    {"Passport", "Birth Certificate", "Marriage Certificate", "Divorce Decree",
     "Employment Authorization"}

AllLabels == RegistryLabels \cup GenericLabels \cup {"Unknown Document"}

GenericOrder ==
    << [label |-> "Passport", words |-> {"passport"}],
       [label |-> "Birth Certificate", words |-> {"birth certificate"}],
       [label |-> "Marriage Certificate", words |-> {"marriage certificate"}],
       [label |-> "Divorce Decree", words |-> {"divorce decree"}],
       [label |-> "Employment Authorization", words |-> {"employment", "authorization"}] >>

MatchedGenerics(tl) ==
    {i \in 1..Len(GenericOrder) :
        \A w \in GenericOrder[i].words : Contains(tl, w)}

\* C6: with no registry pattern in the text the label is the first generic
\* category, in the order Passport, Birth Certificate, Marriage Certificate,
\* Divorce Decree, Employment Authorization (both words), that matches; it is
\* 'Unknown Document' exactly when neither a registry pattern nor a generic
\* category matches; a registry match wins over every generic category.
C6_GenericFallback ==
    Classified =>
        LET tl == Lower(full_text)
            registry == MatchedLabels(tl)
            generic == MatchedGenerics(tl)
        IN  /\ registry # {} => document_type \in RegistryLabels
            /\ (registry = {} /\ generic # {})
                  => document_type = GenericOrder[SetMin(generic)].label
            /\ document_type = "Unknown Document"
                  <=> (registry = {} /\ generic = {})

C6_Witness ==
    /\ ppc = "classified"
    /\ full_text = "Birth Certificate PASSPORT"
    /\ document_type = "Passport"

\* the weights that apply to a document of the given trimmed length, in tenths
WeightSum(trimmed, ff, tb, label) ==
    (IF trimmed > 100 THEN 3 ELSE 0)
    + (IF Len(ff) > 0 THEN 2 ELSE 0)
    + (IF Len(tb) > 0 THEN 2 ELSE 0)
    + (IF label # "Unknown Document" THEN 3 ELSE 0)

\* C7: the score is the sum of the weights that apply (0.3 text longer than
\* 100 characters once trimmed, 0.2 any field, 0.2 any table, 0.3 classified),
\* so it lies in [0,1], is 1.0 with all four signals, 0.6 for a long text
\* with 'I-130' and neither fields nor tables, and 0.0 for an empty document.
C7_ConfidenceIsWeightSum ==
    ppc = "scored" =>
        LET trimmed == Len(Strip(full_text))
        IN  /\ confidence_score
                  = WeightSum(trimmed, form_fields, tables, document_type)
            /\ confidence_score \in 0..10
            /\ (trimmed > 100 /\ form_fields # <<>> /\ tables # <<>>
                   /\ document_type # "Unknown Document") => confidence_score = 10
            /\ (trimmed > 100 /\ Contains(full_text, "I-130")
                   /\ form_fields = <<>> /\ tables = <<>>) => confidence_score = 6
            /\ (full_text = "" /\ form_fields = <<>> /\ tables = <<>>)
                   => confidence_score = 0

\* a text of exactly 100 characters once trimmed (longer untrimmed) earns no
\* text weight
C7_Witness ==
    /\ ppc = "scored"
    /\ Len(Strip(full_text)) = 100 /\ Len(full_text) > 100
    /\ Contains(full_text, "I-130")
    /\ form_fields = <<>> /\ tables = <<>>
    /\ confidence_score = 3

(***************************************************************************)
(* Claims about the orchestrator, under SpecAnalyze.                       *)
(***************************************************************************)
\* C8: when the response to the key-information prompt is not valid JSON,
\* key_info is {"raw_response": <the response text>} and nothing is raised
\* for it: analyze_document fails only if a provider call does.
C8_MalformedKeyInfoFallsBack ==
    \A k \in 1..Len(responses) :
        (/\ dispatched[k].kind = "key_info"
         /\ responses[k].ok
         /\ ~JsonLoads(responses[k].content).ok)
        => /\ key_info = RawResponse(responses[k].content)
           /\ exception # "TypeError"
           /\ apc = "raised" => exception = "ProviderCallFailed"

C8_Witness ==
    /\ apc = "done"
    /\ confidence >= 0
    /\ key_info = RawResponse("{\"form_number\": \"I-130\"")

\* C9: whatever the provider answers, _extract_key_information returns a
\* string-keyed mapping, never a list, string, number, boolean or null.
C9_KeyInfoIsMapping == key_info.kind \in {"unset", "dict"}

\* C10: a failed provider call is the last one made: its failure leaves
\* analyze_document as the exception raised to the caller, no analysis is
\* returned, and no call site's prompt goes to the provider twice.
C10_FailurePropagatesNoRetry ==
    /\ \A i, j \in 1..Len(dispatched) :
          i < j => <<dispatched[i].kind, dispatched[i].slot>>
                     # <<dispatched[j].kind, dispatched[j].slot>>
    /\ \A k \in 1..Len(responses) :
          ~responses[k].ok =>
              /\ k = Len(dispatched)
              /\ ~awaiting
              /\ apc = "raised"
              /\ exception = "ProviderCallFailed"
              /\ confidence = -1

C10_Witness ==
    /\ apc = "raised"
    /\ exception = "ProviderCallFailed"
    /\ Len(dispatched) = 4
    /\ dispatched[4].kind = "field" /\ dispatched[4].slot = 1
    /\ ~responses[4].ok

\* C11: a provider failure on one prompt call stays with that call: it does
\* not end analyze_document with the exception, so the remaining prompts can
\* still be issued and a DocumentAnalysis produced.
C11_FailureIsolated ==
    \A k \in 1..Len(responses) : ~responses[k].ok => apc # "raised"

\* the provider calls a run without failure makes (lines 81-97)
PlannedCalls == 3 + Len(form_fields) + Len(questions)

\* C11 as amended: a provider failure on one prompt call is not handled at
\* that call: it ends analyze_document with the exception, the prompts after
\* the failed one are never issued and no DocumentAnalysis is produced.
C11_FailureAbortsAnalysis ==
    \A k \in 1..Len(responses) :
        ~responses[k].ok =>
            /\ apc = "raised"
            /\ Len(dispatched) = k
            /\ k < PlannedCalls => Len(dispatched) < PlannedCalls
            /\ confidence = -1

C11_Witness ==
    /\ apc = "raised"
    /\ Len(dispatched) = 1 /\ dispatched[1].kind = "summary"
    /\ ~responses[1].ok
    /\ form_fields # <<>> /\ questions # <<>>
    /\ key_info = NoKeyInfo /\ recommendations = <<>>

\* the number of entries of key_info: its keys if it is a mapping, its
\* len() otherwise
KeyInfoEntries(ki) == IF ki.kind = "dict" THEN Cardinality(ki.keys) ELSE ki.size

\* C13: the confidence of a returned analysis is, in hundredths,
\* 40 x the document's confidence (in [0,1]) + 20 if the summary is longer than
\* 200 characters + 20 if key-info has more than 3 entries + 10 if the document
\* has a form field + 10 if its type is not unknown, capped at 100; it lies in
\* [0,1].
C13_AnalysisConfidence ==
    apc = "done" =>
        LET sum == 4 * confidence_score
                   + (IF Len(summary) > 200 THEN 20 ELSE 0)
                   + (IF KeyInfoEntries(key_info) > 3 THEN 20 ELSE 0)
                   + (IF Len(form_fields) > 0 THEN 10 ELSE 0)
                   + (IF document_type # "Unknown Document" THEN 10 ELSE 0)
        IN  /\ confidence_score \in 0..10
            /\ confidence = (IF sum > 100 THEN 100 ELSE sum)
            /\ confidence \in 0..100

\* all five signals: 0.4 x 1.0 + 0.2 + 0.2 + 0.1 + 0.1 = 1.0
C13_Witness ==
    /\ apc = "done"
    /\ confidence_score = 10
    /\ Len(summary) > 200
    /\ key_info.kind = "dict" /\ Cardinality(key_info.keys) = 4
    /\ form_fields # <<>>
    /\ document_type = "I-130"
    /\ confidence = 100

(***************************************************************************)
(* Claims about the construction of the service and generate_faq, under    *)
(* SpecService.                                                            *)
(***************************************************************************)
\* can the provider be used in this environment: it is one _call_llm knows
\* and its credentials are there
Usable ==
    \/ provider = "openai" /\ openai_api_key.set /\ openai_api_key.value # ""
    \/ provider = "anthropic" /\ anthropic_api_key.set /\ anthropic_api_key.value # ""

\* C12: a provider that cannot be used, for lack of credentials or of
\* support, fails in the constructor; so every constructed service is usable
\* and its first _call_llm never fails for a missing provider configuration.
C12_FailsFastAtConstruction ==
    /\ spc \in {"constructed", "calling", "returned"} => Usable
    /\ service_error # "Unsupported provider: LLMProvider.LOCAL"

(***************************************************************************)
(* Claims about _extract_text, under SpecExtractText.                      *)
(***************************************************************************)
\* the page texts in page order with one newline between neighbours
RECURSIVE JoinPages(_)
JoinPages(ps) ==
    IF ps = <<>> THEN ""
    ELSE IF Len(ps) = 1 THEN ps[1]
    ELSE JoinPages(SubSeq(ps, 1, Len(ps) - 1)) \o "\n" \o ps[Len(ps)]

RECURSIVE TrimRight(_)
TrimRight(s) ==
    IF s = "" THEN ""
    ELSE IF SubSeq(s, Len(s), Len(s)) \in Whitespace
         THEN TrimRight(SubSeq(s, 1, Len(s) - 1))
    ELSE s

RECURSIVE TrimLeft(_)
TrimLeft(s) ==
    IF s = "" THEN ""
    ELSE IF SubSeq(s, 1, 1) \in Whitespace THEN TrimLeft(SubSeq(s, 2, Len(s)))
    ELSE s

\* C14: the full text the extractor returns is the page texts joined in page
\* order by single newlines with only the trailing whitespace removed: the
\* leading whitespace of the first page is kept.
C14_TrailingTrimOnly ==
    xpc = "returned" => full_text = TrimRight(JoinPages(pages))

\* C14 as amended: the full text is the page texts joined in page order by
\* single newlines with the leading and the trailing whitespace of the whole
\* removed; pages_text keeps every page text as it was read.
C14_JoinedAndStripped ==
    xpc = "returned" =>
        /\ full_text = TrimLeft(TrimRight(JoinPages(pages)))
        /\ pages_text = pages

C14_Witness ==
    /\ xpc = "returned"
    /\ pages = <<" a", "a ">>
    /\ full_text = "a\na"

(***************************************************************************)
(* Claims about table extraction, under SpecExtractTables.                 *)
(***************************************************************************)
\* C15: if table extraction fails at any point, also after some tables were
\* extracted, the parse still goes on to its result and the table list of the
\* ParsedDocument is empty.
C15_FailedTablesAreEmpty ==
    (table_error /\ ppc \in {"extracted", "classified", "scored"}) => tables = <<>>

(***************************************************************************)
(* Claims about generate_faq, under SpecService.                           *)
(***************************************************************************)
\* has the provider answered the FAQ prompt with a text that is not JSON
FaqMalformed(k) == served[k].ok /\ ~JsonLoads(served[k].content).ok

\* C16: when the response to the FAQ prompt is not valid JSON, generate_faq
\* does not raise and returns {"raw_response": <the response text>}, the
\* fallback of key-information extraction.
C16_FaqFallsBackToRawResponse ==
    \A k \in 1..Len(served) :
        FaqMalformed(k) =>
            /\ spc = "returned" /\ service_error = ""
            /\ faq = [kind |-> "dict", keys |-> {"raw_response"}, size |-> 1,
                      raw |-> served[k].content]

\* C16 as amended: when the response to the FAQ prompt is not valid JSON,
\* generate_faq does not raise and returns the one-element list
\* [{"question": "Error parsing FAQ", "answer": <the response text>}], a
\* fallback of another shape than that of key-information extraction.
C16_FaqFallsBackToErrorEntry ==
    \A k \in 1..Len(served) :
        FaqMalformed(k) =>
            /\ spc = "returned" /\ service_error = ""
            /\ faq = [kind |-> "list", keys |-> {}, size |-> 1, raw |-> "",
                      items |-> <<[question |-> "Error parsing FAQ",
                                   answer |-> served[k].content]>>]

C16_Witness ==
    /\ spc = "returned"
    /\ served = <<Received("Here is the JSON: {\"form_number\": \"I-130\"}")>>
    /\ faq.kind = "list" /\ faq.size = 1

(***************************************************************************)
(* Further claims about extract_text_chunks, under SpecChunk.              *)
(***************************************************************************)
\* the first chunk followed by every later chunk without its first ov
\* characters
RECURSIVE Reassemble(_, _)
Reassemble(chs, ov) ==
    IF chs = <<>> THEN ""
    ELSE IF Len(chs) = 1 THEN chs[1]
    ELSE Reassemble(SubSeq(chs, 1, Len(chs) - 1), ov)
            \o Slice(chs[Len(chs)], ov, Len(chs[Len(chs)]))

\* s without its whitespace
RECURSIVE Squeeze(_)
Squeeze(s) ==
    IF s = "" THEN ""
    ELSE IF SubSeq(s, 1, 1) \in Whitespace THEN Squeeze(SubSeq(s, 2, Len(s)))
    ELSE SubSeq(s, 1, 1) \o Squeeze(SubSeq(s, 2, Len(s)))

\* the windows lie end to start from 0 to the end of the text
Tiles ==
    /\ windows # <<>> => windows[1][1] = 0 /\ windows[Len(windows)][2] >= Len(text)
    /\ \A k \in 1..(Len(windows) - 1) : windows[k + 1][1] = windows[k][2]
    /\ \A k \in 1..Len(windows) : windows[k][1] < windows[k][2]

\* C17: of a returned call with a valid overlap, the windows tile the text
\* when overlap = 0, and the first chunk followed by every later chunk without
\* its first overlap characters is the text, up to whitespace.
C17_RoundTrip ==
    (cpc = "done" /\ ValidChunkConfig) =>
        /\ overlap = 0 => Tiles
        /\ Squeeze(Reassemble(chunks, overlap)) = Squeeze(text)

\* C18: every chunk produced has at most chunk_size characters and is the
\* trimmed text of its window, and every window after the first starts exactly
\* overlap characters before the end of the window before it.
C18_BoundedOverlappingWindows ==
    /\ Len(chunks) = Len(windows)
    /\ \A k \in 1..Len(chunks) :
          /\ Len(chunks[k]) <= chunk_size
          /\ chunks[k] = Strip(Slice(text, windows[k][1], windows[k][2]))
          /\ windows[k][2] <= windows[k][1] + chunk_size
    /\ \A k \in 1..(Len(windows) - 1) :
          windows[k + 1][1] = windows[k][2] - overlap

\* a window shrunk to its last period, and the next one a character back
C18_Witness ==
    /\ cpc = "done"
    /\ text = "aaa.aaa" /\ chunk_size = 5 /\ overlap = 1
    /\ windows = <<<<0, 4>>, <<3, 8>>>>
    /\ chunks = <<"aaa.", ".aaa">>

\* C19: the first window starts at character 0; once the windows of a call
\* with a valid overlap on a non-empty text are all there (the call has
\* returned, or its loop repeats a window it has run), the last window reaches
\* the end of the text and every character of the text lies in some window; a
\* call on the empty text returns no chunk, without running the loop.
C19_BracketsTheText ==
    /\ windows # <<>> => windows[1][1] = 0
    /\ text = "" => (chunks = <<>> /\ windows = <<>> /\ cpc \in {"loop", "done"})
    /\ (cpc \in {"done", "diverged"} /\ text # "" /\ ValidChunkConfig) =>
          /\ windows # <<>>
          /\ windows[Len(windows)][2] >= Len(text)
          /\ \A i \in 0..(Len(text) - 1) :
                \E k \in 1..Len(windows) :
                    windows[k][1] <= i /\ i < windows[k][2]

(***************************************************************************)
(* Further claims about the classification in parse_pdf, under SpecParse.  *)
(***************************************************************************)
\* C20: the document type of a parsed document is one of the ten registry
\* labels or 'Unknown Document', never empty or absent.
C20_RegistryLabelOrUnknown ==
    Classified => document_type \in RegistryLabels \cup {"Unknown Document"}

\* C20 as amended: the document type of a parsed document is one of the ten
\* registry labels, one of the five generic category labels or 'Unknown
\* Document', never empty or absent.
C20_KnownLabel ==
    /\ Classified =>
          /\ document_type # ""
          /\ \/ document_type \in RegistryLabels
             \/ document_type \in GenericLabels
             \/ document_type = "Unknown Document"
    /\ ~Classified => document_type = ""

C20_Witness ==
    /\ ppc = "scored"
    /\ full_text = "PASSPORT Form"
    /\ document_type = "Passport"

(***************************************************************************)
(* C21: the document text a prompt embeds is exactly the first N           *)
(* characters of the full text (all of it when it is shorter), N = 4000    *)
(* for summary, 3000 for key-info, answer, translate and simplify, 2000    *)
(* for recommendations and FAQ; a per-field prompt embeds no document      *)
(* text.                                                                   *)
(***************************************************************************)
Budget ==
    [summary |-> 4000, key_info |-> 3000, question |-> 3000, translate |-> 3000,
     simplify |-> 3000, recommendations |-> 2000, faq |-> 2000]

FirstChars(s, n) == IF Len(s) <= n THEN s ELSE SubSeq(s, 1, n)

C21_PromptEmbedsFirstN ==
    \A k \in DOMAIN prompts :
        IF prompts[k].kind = "field" THEN prompts[k].content = ""
        ELSE prompts[k].content = FirstChars(full_text, Budget[prompts[k].kind])

\* a text longer than the largest budget went into a summary prompt, cut
C21_Witness ==
    /\ mpc = "returned" /\ method.kind = "summary"
    /\ Len(full_text) > Budget["summary"]
    /\ Len(prompts[1].content) = Budget["summary"]

(***************************************************************************)
(* C22: on a PDF that cannot be read parse_pdf_from_bytes raises and       *)
(* returns no ParsedDocument, so the upload that handed it over is         *)
(* answered with an error and leaves document_cache as it was.             *)
(***************************************************************************)
Unreadable(r) ==
    /\ frames[r].handler = "upload_pdf"
    /\ frames[r].upload.content.fails # "none"

C22_FailedUploadLeavesCache ==
    [][\A r \in DOMAIN frames :
          (Unreadable(r) /\ frames[r].stage = "reading" /\ frames'[r].stage = "done")
              => /\ frames'[r].reply.status = 500
                 /\ frames'[r].parsed_doc = NoDocument
                 /\ document_cache' = document_cache]_vars

\* an unreadable upload was answered while another document was cached
C22_Witness ==
    \E r \in DOMAIN frames :
        /\ Unreadable(r) /\ frames[r].stage = "done"
        /\ frames[r].reply = Reraised("Error processing PDF", ParseError)
        /\ frames[r].document_id \notin DOMAIN document_cache
        /\ document_cache # <<>>

(***************************************************************************)
(* C23: _generate_recommendations returns the response split at its        *)
(* newline characters and nothing else done to it: the list joined with    *)
(* newlines is the response again, a blank line is kept as an empty        *)
(* string, and an empty response gives the one-element list [""].          *)
(***************************************************************************)
RECURSIVE JoinLines(_)
JoinLines(lines) ==
    IF lines = <<>> THEN ""
    ELSE IF Len(lines) = 1 THEN lines[1]
    ELSE lines[1] \o "\n" \o JoinLines(Tail(lines))

Newlines(s) == Cardinality({i \in 1..Len(s) : SubSeq(s, i, i) = "\n"})

C23_SplitOnNewlinesOnly ==
    (mpc = "returned" /\ method.kind = "recommendations") =>
        /\ JoinLines(result.value) = received[1]
        /\ Len(result.value) = Newlines(received[1]) + 1
        /\ \A i \in DOMAIN result.value : Newlines(result.value[i]) = 0
        /\ (received[1] = "" => result.value = <<"">>)

\* a response with a blank line and a closing newline came back as a list
\* with the two empty strings in it
C23_Witness ==
    /\ mpc = "returned" /\ method.kind = "recommendations"
    /\ Len(result.value) = 4
    /\ result.value[2] = "" /\ result.value[4] = ""

(***************************************************************************)
(* C24: every page_number of a ParsedDocument (of a form field, a table,   *)
(* an image) is at least 1 and at most metadata.page_count, and the form   *)
(* fields are in non-decreasing page order.                                *)
(***************************************************************************)
OnAPage(items) ==
    \A i \in DOMAIN items :
        1 <= items[i].page_number /\ items[i].page_number <= page_count

UploadOf(id) ==
    CHOOSE r \in DOMAIN frames :
        frames[r].handler = "upload_pdf" /\ frames[r].document_id = id

AsConstructed(id) == ParsedDocumentOf(frames[UploadOf(id)].upload.content)

C27_AnalysesOfCachedDocuments ==
    \A a \in DOMAIN analysis_cache :
        analysis_cache[a].document_id \in DOMAIN document_cache

(***************************************************************************)
(* C28: a request to ask-question, translate-document, simplify-document,  *)
(* document-status or delete that names a document id not in               *)
(* document_cache is answered with the 404 "Document not found" error the  *)
(* handler raises.                                                         *)
(***************************************************************************)
LookupHandlers ==
    {"ask_question", "translate_document", "simplify_document",
     "get_document_status", "delete_document"}

C28_UnknownDocumentIs404 ==
    \A r \in DOMAIN frames :
        (frames[r].handler \in LookupHandlers /\ frames[r].missing)
            => /\ frames[r].reply.status = 404
               /\ frames[r].reply.detail = "Document not found"

(***************************************************************************)
(* C26: analyze_document issues its provider calls one at a time, each     *)
(* completed before the next starts, in the order summary, key             *)
(* information, one guidance call per form field in field order,           *)
(* recommendations, one answer call per question in the given order; a     *)
(* run that returns made exactly 3 + fields + questions calls, and none    *)
(* for field guidance when the document has no form fields.                *)
(***************************************************************************)
ExpectedCall(k) ==
    LET nf == Len(form_fields)
    IN  IF k = 1 THEN [kind |-> "summary", slot |-> 0, about |-> ""]
        ELSE IF k = 2 THEN [kind |-> "key_info", slot |-> 0, about |-> ""]
        ELSE IF k <= 2 + nf
             THEN [kind |-> "field", slot |-> k - 3, about |-> form_fields[k - 2]]
        ELSE IF k = 3 + nf THEN [kind |-> "recommendations", slot |-> 0, about |-> ""]
        ELSE [kind |-> "question", slot |-> k - 4 - nf,
              about |-> questions[k - 3 - nf]]

C26_OneAtATimeInOrder ==
    /\ Len(dispatched) <= PlannedCalls
    /\ \A k \in DOMAIN dispatched :
          /\ dispatched[k].kind = ExpectedCall(k).kind
          /\ dispatched[k].slot = ExpectedCall(k).slot
          /\ dispatched[k].about = ExpectedCall(k).about
    /\ Len(dispatched) = Len(responses) + (IF awaiting THEN 1 ELSE 0)
    /\ apc = "done" =>
          /\ Len(dispatched) = PlannedCalls
          /\ \A k \in DOMAIN responses : responses[k].ok
    /\ form_fields = <<>> => \A k \in DOMAIN dispatched : dispatched[k].kind # "field"

\* an analysis of a document with two fields and two questions returned
C26_Witness ==
    /\ apc = "done"
    /\ Len(form_fields) = 2 /\ Len(questions) = 2
    /\ Len(dispatched) = 7
    /\ dispatched[4].kind = "field" /\ dispatched[7].kind = "question"

(***************************************************************************)
(* C29: with 0 <= overlap < chunk_size the window start is never negative  *)
(* and strictly increases from one iteration to the next, so no chunk is   *)
(* sliced from a negative index and no window is processed twice.          *)
(***************************************************************************)
C29_StartAdvances ==
    ValidChunkConfig =>
        /\ start >= 0
        /\ \A k \in 1..Len(windows) :
              /\ windows[k][1] >= 0
              /\ windows[k][1] < (IF k < Len(windows) THEN windows[k + 1][1] ELSE start)

(***************************************************************************)
(* C30: every chunk after the first contains at least one character of     *)
(* the text that lies beyond the window of the chunk before it; a text no  *)
(* longer than chunk_size (and not empty) yields exactly one chunk,        *)
(* whatever the overlap.                                                   *)
(***************************************************************************)
C30_EveryChunkAddsText ==
    ValidChunkConfig =>
        /\ \A k \in 2..Len(windows) :
              windows[k - 1][2] < Len(text) /\ windows[k - 1][2] < windows[k][2]
        /\ (cpc = "done" /\ text # "" /\ Len(text) <= chunk_size) => Len(chunks) = 1

====
